---- MODULE Spec2Model ----
(***************************************************************************)
(* Soklin wallet-monitoring pipeline: Broadcast Hub (WebSocketService),    *)
(* Monitor Coordinator (WalletMonitorService), Event Ingester              *)
(* (SomniaService), Feature Extractor history and Flag Registry client.    *)
(*                                                                         *)
(* JavaScript runs one task at a time; an async function is interrupted    *)
(* only at an await whose promise is settled by I/O or a timer.  Each      *)
(* action below is one such uninterrupted segment of a handler.            *)
(***************************************************************************)
EXTENDS Integers, Sequences, FiniteSets, TLC

(***************************************************************************)
(* Addresses.  An address string is <<id, form>>: the 20 bytes it denotes  *)
(* and the letter case it is written in.  "w1" contains hex letters and    *)
(* its EIP-55 checksum form is mixed case; "w2" consists of digits only,   *)
(* so all its case forms are the same string.                              *)
(***************************************************************************)
WalletIds == {"w1", "w2"}

DigitsOnly(id) == id = "w2"

Forms == {"lower", "upper", "checksum", "mixed"}

AddressStrings ==
    {s \in WalletIds \X Forms : DigitsOnly(s[1]) => s[2] = "lower"}

\* a string that does not match /^0x[a-fA-F0-9]{40}$/
Malformed == <<"bad", "lower">>

InputStrings == AddressStrings \cup {Malformed}

NoAddress == <<"none", "none">>

\* String.prototype.toLowerCase on an address string
toLowerCase(s) == <<s[1], "lower">>

\* ethers.getAddress: the checksum form; throws (NoAddress) on a string that
\* is no address or is mixed case with a wrong checksum
getAddress(s) ==
    IF s \notin AddressStrings \/ s[2] = "mixed" THEN NoAddress
    ELSE IF DigitsOnly(s[1]) THEN <<s[1], "lower">>
    ELSE <<s[1], "checksum">>

\* Validators.isValidEthereumAddress
isValidEthereumAddress(address) ==
    LET checksumAddress == getAddress(address) IN
    IF checksumAddress = NoAddress
    THEN [isValid |-> FALSE, normalized |-> NoAddress]
    ELSE [isValid |-> TRUE, normalized |-> checksumAddress]

\* the keys under which the services store a wallet
Keys == {isValidEthereumAddress(s).normalized : s \in AddressStrings} \ {NoAddress}

SameWallet(s, t) == s[1] = t[1]

(***************************************************************************)
(* Bounds of the model                                                     *)
(***************************************************************************)
MaxInbound == 2      \* inbound messages handled per connection (hub runs)
MinInboundNearLimit == 98  \* inbound messages already handled in the runs that
                           \* begin near the rate limit
MaxInboundOverLimit == 3   \* inbound messages handled beyond maxMessages
MinSubscriptionsNearLimit == 48  \* subscriptions already held in those runs
TickMs == 30000      \* the step of the clock
MaxNow == 60000      \* the clock runs until the first cleanup at or after
                     \* this time (runs near the limits)
MaxIdleNow == 360000 \* the same, in the runs of the idle connections

(***************************************************************************)
(* Program constants                                                       *)
(***************************************************************************)
maxMessages == 100
windowMs == 60000
maxSubscriptions == 50
CONNECTION_TIMEOUT == 300000
cleanupIntervalMs == 60000

ConnIds == {"c1", "c2"}

MsgTypes == {"score_update", "transaction_alert", "wallet_flagged"}

VARIABLES
    \* WebSocketService
    connections,        \* ids in the connections table
    subscribedWallets,  \* connection.subscribedWallets
    socketConnected,    \* socket.connected of the connection's socket
    lastActivity,       \* connection.lastActivity
    messageCounts,      \* messageCounts: id -> {count, resetTime} (count 0: no entry)
    now,                \* Date.now()
    lastReply,          \* the last reply sent: connection and message
    lastCleanup,        \* when the cleanup interval last fired (0: at start-up)
    inboundLog,         \* per connection, its inbound messages in order: time,
                        \* type, whether checkRateLimit refused it
    wsOut,              \* the broadcasts issued by the last step, in order:
                        \* type, wallet, tx hash, receiving connections
    \* WalletMonitorService
    monitoredWallets,   \* Map wallet -> monitor
    eventBuffer,        \* Map wallet -> buffered events
    startCalls,         \* startMonitoringWallet calls that are at an await
    walletEventCalls,   \* handleWalletEvent calls that are at an await
    batchTicks,         \* processBufferedEvents runs that are at an await
    apiResult,          \* the result returned by the last finished API call
    \* FeatureProcessor
    transactionHistory, \* wallet -> stored events, newest first
    \* ScoringService
    blacklist,          \* lowercase addresses loaded from the blacklist file
    scoringCall,        \* the last call of a scoring method made on its own:
                        \* its arguments, the prediction, the result
    rescoreCall,        \* the recalculateScore call that is at an await
    rescoreResults,     \* what the recalculateScore calls returned so far:
                        \* wallet, the buffered events scored, the number of
                        \* events the wallet had received, the score
    alertCall,          \* a broadcastTransactionAlert call made on its own: the
                        \* event as the Ingester created it, the same object
                        \* as its holder sees it now, and the message emitted
    hashCaches,         \* the hash caches of one polling task over a long run,
                        \* each in insertion order: processedTxCache and
                        \* recentTxHashSet of the task, and the service's
                        \* processedTransactions
    \* SomniaService
    somniaSubscribedWallets,  \* this.subscribedWallets (and eventCallbacks keys)
    activeSubscriptions,      \* Map wallet -> the subscription object (a task)
    tasks,              \* polling timers and SDK subscriptions that exist
    pollTicks,          \* timer callbacks and onData handlers at an await
    \* the chain and the flag registry contract
    latestBlock,        \* provider.getBlockNumber()
    flaggedWallets,     \* wallets the contract reports as flagged
    flagCalls,          \* the calls of contractService.flagWallet made so far:
                        \* wallet, the events of the run, the arguments sent
    registry,           \* the WalletFlagger contract: its storage, the block
                        \* timestamp, the outcome of the last call, and what
                        \* the calls did to each wallet so far
    \* history of the run
    delivered           \* per wallet, the events handed to the callback, in order

hubVars == <<connections, subscribedWallets, socketConnected, lastActivity,
             messageCounts, now, lastReply, lastCleanup, inboundLog, wsOut>>

\* the hub state a broadcast leaves alone
hubTables == <<connections, subscribedWallets, socketConnected, lastActivity,
               messageCounts, now, lastReply, lastCleanup, inboundLog>>

scoringVars == <<blacklist, scoringCall, rescoreCall, rescoreResults, alertCall,
                 hashCaches>>

monitorVars == <<monitoredWallets, eventBuffer, startCalls, walletEventCalls,
                 batchTicks, apiResult, transactionHistory, scoringVars>>

somniaVars == <<somniaSubscribedWallets, activeSubscriptions, tasks, pollTicks,
                delivered>>

chainVars == <<latestBlock, flaggedWallets, flagCalls, registry>>

vars == <<hubVars, monitorVars, somniaVars, chainVars>>

NoRate == [count |-> 0, resetTime |-> 0]

\* the hub after construction: no connection
InitHub ==
    /\ connections = {}
    /\ subscribedWallets = [c \in ConnIds |-> {}]
    /\ socketConnected = [c \in ConnIds |-> FALSE]
    /\ lastActivity = [c \in ConnIds |-> 0]
    /\ messageCounts = [c \in ConnIds |-> NoRate]
    /\ now = 0
    /\ lastReply = <<"none", "none">>
    /\ lastCleanup = 0
    /\ inboundLog = [c \in ConnIds |-> <<>>]
    /\ wsOut = <<>>

\* checkRateLimit: the entry after the call, and whether the message passes
checkRateLimit(rateInfo) ==
    LET fresh == IF rateInfo.count = 0 \/ now >= rateInfo.resetTime
                 THEN [count |-> 0, resetTime |-> now + windowMs]
                 ELSE rateInfo
        counted == [fresh EXCEPT !.count = @ + 1]
    IN [rateInfo |-> counted, ok |-> counted.count <= maxMessages]

\* validateSubscribeData / validateUnsubscribeData on {wallet: data}
validateSubscribeData(data) ==
    LET walletValidation == isValidEthereumAddress(data) IN
    [isValid |-> walletValidation.isValid, wallet |-> walletValidation.normalized]

\* handleConnection: a client connects and gets a fresh connection record
HandleConnection(c) ==
    /\ c \notin connections
    /\ ~socketConnected[c]
    /\ connections' = connections \cup {c}
    /\ subscribedWallets' = [subscribedWallets EXCEPT ![c] = {}]
    /\ socketConnected' = [socketConnected EXCEPT ![c] = TRUE]
    /\ lastActivity' = [lastActivity EXCEPT ![c] = now]
    /\ lastReply' = <<c, "heartbeat">>
    /\ inboundLog' = [inboundLog EXCEPT ![c] = <<>>]
    /\ wsOut' = <<>>
    /\ UNCHANGED <<messageCounts, now, lastCleanup>>
    /\ UNCHANGED <<monitorVars, somniaVars, chainVars>>

InboundCount(c) == Len(inboundLog[c])

\* the connection may send a further message: it sent few, or it is in a run
\* near the rate limit
MayReceiveFrom(c) ==
    \/ InboundCount(c) < MaxInbound
    \/ /\ InboundCount(c) >= MinInboundNearLimit
       /\ InboundCount(c) < maxMessages + MaxInboundOverLimit

\* the log after a message of the given type
logged(c, type, limited) ==
    [inboundLog EXCEPT ![c] = Append(@, [time |-> now, type |-> type,
                                         limited |-> limited])]

\* a limit test that lets a set of maxSubscriptions wallets grow
subscriptionLimitPassed(size) == size > maxSubscriptions

\* handleSubscribe: subscribedWallets.size >= maxSubscriptions
subscriptionLimitReached(size) == size >= maxSubscriptions

\* handleSubscribe
HandleSubscribe(c, data) ==
    /\ socketConnected[c]
    /\ MayReceiveFrom(c)
    /\ LET rate == checkRateLimit(messageCounts[c])
           validation == validateSubscribeData(data)
       IN /\ lastActivity' = [lastActivity EXCEPT ![c] = now]
          /\ messageCounts' = [messageCounts EXCEPT ![c] = rate.rateInfo]
          /\ inboundLog' = logged(c, "subscribe", ~rate.ok)
          /\ IF ~rate.ok
             THEN /\ lastReply' = <<c, "RATE_LIMIT_EXCEEDED">>
                  /\ UNCHANGED subscribedWallets
             ELSE IF ~validation.isValid
             THEN /\ lastReply' = <<c, "INVALID_SUBSCRIPTION">>
                  /\ UNCHANGED subscribedWallets
             ELSE IF subscriptionLimitReached(Cardinality(subscribedWallets[c]))
             THEN /\ lastReply' = <<c, "SUBSCRIPTION_LIMIT_EXCEEDED">>
                  /\ UNCHANGED subscribedWallets
             ELSE /\ subscribedWallets' =
                        [subscribedWallets EXCEPT ![c] = @ \cup {validation.wallet}]
                  /\ lastReply' = <<c, "subscribed">>
    /\ wsOut' = <<>>
    /\ UNCHANGED <<connections, socketConnected, now, lastCleanup>>
    /\ UNCHANGED <<monitorVars, somniaVars, chainVars>>

\* handleUnsubscribe (it does not call checkRateLimit)
HandleUnsubscribe(c, data) ==
    /\ socketConnected[c]
    /\ MayReceiveFrom(c)
    /\ LET validation == validateSubscribeData(data)
       IN /\ lastActivity' = [lastActivity EXCEPT ![c] = now]
          /\ inboundLog' = logged(c, "unsubscribe", FALSE)
          /\ IF ~validation.isValid
             THEN /\ lastReply' = <<c, "INVALID_UNSUBSCRIPTION">>
                  /\ UNCHANGED subscribedWallets
             ELSE /\ subscribedWallets' =
                        [subscribedWallets EXCEPT ![c] = @ \ {validation.wallet}]
                  /\ lastReply' = <<c, IF validation.wallet \in subscribedWallets[c]
                                        THEN "unsubscribed" ELSE "not_subscribed">>
    /\ wsOut' = <<>>
    /\ UNCHANGED <<connections, socketConnected, messageCounts, now, lastCleanup>>
    /\ UNCHANGED <<monitorVars, somniaVars, chainVars>>

\* handlePing (it does not call checkRateLimit)
HandlePing(c) ==
    /\ socketConnected[c]
    /\ MayReceiveFrom(c)
    /\ lastActivity' = [lastActivity EXCEPT ![c] = now]
    /\ inboundLog' = logged(c, "ping", FALSE)
    /\ lastReply' = <<c, "pong">>
    /\ wsOut' = <<>>
    /\ UNCHANGED <<connections, subscribedWallets, socketConnected, messageCounts,
                   now, lastCleanup>>
    /\ UNCHANGED <<monitorVars, somniaVars, chainVars>>

\* handleDisconnect: the client's socket closed
HandleDisconnect(c) ==
    /\ socketConnected[c]
    /\ socketConnected' = [socketConnected EXCEPT ![c] = FALSE]
    /\ connections' = connections \ {c}
    /\ messageCounts' = [messageCounts EXCEPT ![c] = NoRate]
    /\ wsOut' = <<>>
    /\ UNCHANGED <<subscribedWallets, lastActivity, now, lastReply, lastCleanup,
                   inboundLog>>
    /\ UNCHANGED <<monitorVars, somniaVars, chainVars>>

\* handleError: the connection's socket reports a transport error
HandleError(c) ==
    /\ socketConnected[c]
    /\ c \in connections
    /\ lastReply' = <<c, "CONNECTION_ERROR">>
    /\ wsOut' = <<>>
    /\ UNCHANGED <<connections, subscribedWallets, socketConnected, lastActivity,
                   messageCounts, now, lastCleanup, inboundLog>>
    /\ UNCHANGED <<monitorVars, somniaVars, chainVars>>

\* the clock advances by a tick, unless the cleanup interval is due first;
\* a run ends with the first cleanup at or after the limit
TimePasses(limit) ==
    /\ lastCleanup < limit
    /\ now - lastCleanup < cleanupIntervalMs
    /\ now' = now + TickMs
    /\ wsOut' = <<>>
    /\ UNCHANGED <<connections, subscribedWallets, socketConnected, lastActivity,
                   messageCounts, lastReply, lastCleanup, inboundLog>>
    /\ UNCHANGED <<monitorVars, somniaVars, chainVars>>

\* a cleanup that finds no connection stale
noStaleConnections == {}

\* cleanupStaleConnections: the connections it closes
staleConnections == {c \in connections : now - lastActivity[c] > CONNECTION_TIMEOUT}

\* the cleanup interval fires: cleanupStaleConnections
CleanupStaleConnections ==
    /\ now - lastCleanup >= cleanupIntervalMs
    /\ lastCleanup' = now
    /\ socketConnected' = [c \in ConnIds |->
                              socketConnected[c] /\ c \notin staleConnections]
    /\ connections' = connections \ staleConnections
    /\ messageCounts' = [c \in ConnIds |->
                            IF c \in staleConnections THEN NoRate ELSE messageCounts[c]]
    /\ subscribedWallets' = [c \in ConnIds |->
                                IF c \in staleConnections THEN {}
                                ELSE subscribedWallets[c]]
    /\ wsOut' = <<>>
    /\ UNCHANGED <<lastActivity, now, lastReply, inboundLog>>
    /\ UNCHANGED <<monitorVars, somniaVars, chainVars>>

\* a broadcast that skips the subscription test
broadcastToEveryConnection(walletAddress) ==
    {c \in connections : socketConnected[c]}

\* the connections a broadcast for walletAddress is sent to:
\* connections.forEach(if subscribedWallets.has(walletAddress.toLowerCase()))
\* and sendMessage (which emits only on a connected socket)
broadcastToWalletSubscribers(walletAddress) ==
    {c \in connections :
        /\ toLowerCase(walletAddress) \in subscribedWallets[c]
        /\ socketConnected[c]}

\* broadcastScoreUpdate / broadcastTransactionAlert / broadcastWalletFlagged:
\* the message as it leaves the hub (hash: the alert's transaction, else 0)
Broadcast(type, walletAddress, hash) ==
    [type |-> type, wallet |-> walletAddress, hash |-> hash,
     to |-> broadcastToWalletSubscribers(walletAddress)]

\* a broadcast issued by the Coordinator, which passes the wallet's key
BroadcastMessage(type, walletAddress) ==
    /\ wsOut' = <<Broadcast(type, walletAddress, 0)>>
    /\ UNCHANGED hubTables
    /\ UNCHANGED <<monitorVars, somniaVars, chainVars>>

(***************************************************************************)
(* Event timestamps.  Every timestamp and every reading of Date.now() is   *)
(* written in units of 10^6: 1700 stands for 1 700 000 000 (a date in      *)
(* seconds), 1700000 for 1 700 000 000 000 (the same date in               *)
(* milliseconds); 0 stands for a missing value.                            *)
(***************************************************************************)
\* 1000000000000, the value below which a timestamp is taken for seconds
secondsBelow == 1000000

\* Date.now() at the two moments of a call
ClockInputs == {1700002, 1700003}

\* data.timestamp of the data the SDK subscription pushes: a number, a
\* value of another type (a uint64 decoded as bigint, a string), or none
SdkTimestamps ==
    {[type |-> t, value |-> v] : t \in {"number", "other"}, v \in {1699, 1700, 1701}}
        \cup {[type |-> "none", value |-> 0]}

\* createWalletEventFromData: the timestamp of the event
createdTimestamp(data, dateNow) ==
    IF data.type = "none" THEN dateNow
    ELSE IF data.type = "number" THEN data.value * 1000
    ELSE data.value

\* broadcastTransactionAlert: the timestamp it writes to the transaction
ensuredTimestamp(timestamp, dateNow) ==
    IF timestamp = 0 \/ timestamp < secondsBelow THEN dateNow ELSE timestamp

NoAlert == [pc |-> "idle", wallet |-> NoAddress,
            created |-> [hash |-> 0, timestamp |-> 0],
            event |-> [hash |-> 0, timestamp |-> 0],
            emitted |-> [hash |-> 0, timestamp |-> 0]]

\* createWalletEventFromData: the Ingester builds the event and hands it to
\* the Coordinator, which holds it
EventCreated(walletAddress, hash, data, dateNow) ==
    /\ alertCall.pc # "held"
    /\ LET event == [hash |-> hash, timestamp |-> createdTimestamp(data, dateNow)]
       IN alertCall' = [pc |-> "held", wallet |-> walletAddress, created |-> event,
                        event |-> event, emitted |-> NoAlert.emitted]
    /\ wsOut' = <<>>
    /\ UNCHANGED <<hubTables, chainVars, somniaVars, monitoredWallets, eventBuffer,
                   startCalls, walletEventCalls, batchTicks, apiResult,
                   transactionHistory, blacklist, scoringCall, rescoreCall,
                   rescoreResults, hashCaches>>

\* broadcastTransactionAlert(walletAddress, transaction, ...) with the event
\* the Coordinator holds: the timestamp is assigned to the object passed
\* in, and the message carries a copy made after the assignment
BroadcastTransactionAlert(dateNow) ==
    /\ alertCall.pc = "held"
    /\ LET transaction ==
               [alertCall.event EXCEPT
                   !.timestamp = ensuredTimestamp(@, dateNow)]
       IN alertCall' = [alertCall EXCEPT !.pc = "sent",
                                         !.event = transaction,
                                         !.emitted = transaction]
    /\ wsOut' = <<Broadcast("transaction_alert", alertCall.wallet,
                            alertCall.event.hash)>>
    /\ UNCHANGED <<hubTables, chainVars, somniaVars, monitoredWallets, eventBuffer,
                   startCalls, walletEventCalls, batchTicks, apiResult,
                   transactionHistory, blacklist, scoringCall, rescoreCall,
                   rescoreResults, hashCaches>>


(***************************************************************************)
(* The chain as the provider reports it.  Block b holds one transaction,   *)
(* with hash b, sent to wallet w1; w1 emits a log in it.  The services are *)
(* connected: connectToSomnia succeeded and the Somnia SDK client exists.  *)
(***************************************************************************)
MaxBlock == 2        \* blocks mined during a run

TxHashes == 1..MaxBlock

\* tx.to.toLowerCase()
TxTo(hash) == <<"w1", "lower">>

\* tx.blockNumber; block timestamps grow with the block number
TxBlock(hash) == hash

\* provider.getLogs({address, fromBlock, toBlock}): the transaction hashes
\* of the logs the address emitted, in block order
RECURSIVE getLogs(_, _, _)
getLogs(address, fromBlock, toBlock) ==
    IF fromBlock > toBlock THEN <<>>
    ELSE (IF SameWallet(TxTo(fromBlock), address) THEN <<fromBlock>> ELSE <<>>)
         \o getLogs(address, fromBlock + 1, toBlock)

\* the WalletEvent built from a transaction and its receipt
WalletEvent(hash) == [hash |-> hash, blockNumber |-> TxBlock(hash)]

\* event.from/to.toLowerCase() === walletAddress.toLowerCase()
involvesWallet(hash, walletAddress) ==
    toLowerCase(TxTo(hash)) = toLowerCase(walletAddress)

Max(a, b) == IF a >= b THEN a ELSE b

Min(a, b) == IF a <= b THEN a ELSE b

\* array.slice(-n)
SliceLast(seq, n) == SubSeq(seq, Max(1, Len(seq) - n + 1), Len(seq))

(***************************************************************************)
(* JavaScript Map                                                          *)
(***************************************************************************)
EmptyMap == [k \in {} |-> {}]

has(map, key) == key \in DOMAIN map

set(map, key, value) ==
    [k \in DOMAIN map \cup {key} |-> IF k = key THEN value ELSE map[k]]

delete(map, key) == [k \in DOMAIN map \ {key} |-> map[k]]

(***************************************************************************)
(* FeatureProcessor and ScoringService (no ONNX model loaded: the          *)
(* prediction is calculateFallbackScore for the zero address)              *)
(***************************************************************************)
\* setupProviderPolling: recentTxHashSet.size > 1000, keep the last 500
maxRecentTxHashes == 1000
keptRecentTxHashes == 500
\* markTxProcessed: processedTransactions.size > 10000, remove the oldest 1000
maxProcessedTransactions == 10000
removedProcessedTransactions == 1000

MAX_HISTORY == 1000
BLACKLIST_PENALTY == 0 - 30
FLAGGING_THRESHOLD == 40
SCORE_UPDATE_THRESHOLD == 5

\* [...].sort((a, b) => b.timestamp - a.timestamp): stable, newest block first
RECURSIVE sortByTimestampDesc(_, _)
sortByTimestampDesc(events, block) ==
    IF block < 1 THEN <<>>
    ELSE SelectSeq(events, LAMBDA e : e.blockNumber = block)
         \o sortByTimestampDesc(events, block - 1)

\* updateTransactionHistory: the stored history after the call
updateTransactionHistory(current, newEvents) ==
    LET updated == sortByTimestampDesc(current \o newEvents, MaxBlock)
    IN SubSeq(updated, 1, Min(Len(updated), MAX_HISTORY))

\* extractFeaturesFromEvent, after the history was updated
extractFeaturesFromEvent(walletEvents) == [transactionCount |-> Len(walletEvents)]

\* calculateFallbackScore('0x000...0', []): base 70, account younger than a day
fallbackScoreOfZeroAddress == 70 - 20

determineRiskLevel(score) ==
    IF score >= 70 THEN "low"
    ELSE IF score >= 50 THEN "medium"
    ELSE IF score >= 30 THEN "high"
    ELSE "critical"

\* lastScore: null
NoScore == [reputationScore |-> 0 - 1, riskLevel |-> "null", transactionCount |-> 0,
            features |-> [transactionCount |-> 0]]

\* calculateWalletScore(walletAddress, events), history being the wallet's
\* stored history before the call
calculateWalletScore(walletAddress, events, history) ==
    LET features == extractFeaturesFromEvent(updateTransactionHistory(history, events))
        baseScore == fallbackScoreOfZeroAddress
        blacklistPenalty == IF toLowerCase(walletAddress) \in blacklist
                            THEN BLACKLIST_PENALTY ELSE 0
        finalScore == Max(0, Min(100, baseScore + blacklistPenalty))
    IN [reputationScore |-> finalScore,
        riskLevel |-> determineRiskLevel(finalScore),
        transactionCount |-> Len(events),
        features |-> features]

\* no scoring method was called on its own yet
NoCall == [method |-> "none"]

\* isSignificantScoreChange
isSignificantScoreChange(previous, current) ==
    LET diff == previous.reputationScore - current.reputationScore
        scoreDiff == IF diff >= 0 THEN diff ELSE 0 - diff
    IN ~(scoreDiff < SCORE_UPDATE_THRESHOLD /\ previous.riskLevel = current.riskLevel)

(***************************************************************************)
(* Calls in progress.  A call that is waiting at an await occupies a slot; *)
(* a new call takes the first idle slot.                                   *)
(***************************************************************************)
MaxStartCalls == 2   \* startMonitoringWallet calls in progress at a time
MaxEventCalls == 1   \* handleWalletEvent calls in progress at a time
MaxBatchTicks == 2   \* processBufferedEvents runs in progress at a time
MaxTasks == 2        \* polling timers and SDK subscriptions in existence
MaxPollTicks == 2    \* timer callbacks and onData handlers in progress
MaxDelivered == 2    \* events handed to the callback during a run
MaxHistoryLen == 3   \* stored history at which no further start is issued
MaxRescores == 2      \* recalculateScore calls that return during a run
MaxFlagCalls == 2    \* calls of contractService.flagWallet during a run
MaxRegistryFlags == 3  \* flags the contract stores during a run
DaysPerStep == 90    \* the step of block.timestamp, in days
MaxDays == 360       \* the last block.timestamp of a run, in days
MaxAlertHashes == 3  \* transactions the SDK subscription pushes during a run
MaxCacheDeliveries == 5   \* transactions a long-running task delivers further
MinCachedNearLimit == 998 \* hashes in the task's caches at the start, at least
MinGlobalNearLimit == 9998  \* hashes in processedTransactions at the start

HasIdle(slots) == \E i \in DOMAIN slots : slots[i].pc = "idle"

FirstIdle(slots) ==
    CHOOSE i \in DOMAIN slots :
        /\ slots[i].pc = "idle"
        /\ \A j \in DOMAIN slots : j < i => slots[j].pc # "idle"

\* scoreUpdates: the score_update messages the call has broadcast so far
IdleStart == [pc |-> "idle", wallet |-> NoAddress, outcome |-> "none",
              initialEvents |-> <<>>, initialScore |-> NoScore, scoreUpdates |-> 0]

IdleEvent == [pc |-> "idle", wallet |-> NoAddress, event |-> WalletEvent(0),
              allEvents |-> <<>>, newScore |-> NoScore]

\* events: the buffer array the run iterates; live: it is still the array
\* stored in eventBuffer, so that bufferEvent pushes to it; scored: the
\* events the array held when the run computed the score
IdleBatch == [pc |-> "idle", wallet |-> NoAddress, events |-> <<>>,
              live |-> FALSE, scored |-> <<>>, newScore |-> NoScore]

IdleTick == [pc |-> "idle", task |-> 0, wallet |-> NoAddress, dedup |-> FALSE,
             pending |-> 0, rest |-> <<>>]

\* eventCount: monitor.eventCount when the call read the buffer
IdleRescore == [pc |-> "idle", wallet |-> NoAddress, events |-> <<>>,
                eventCount |-> 0, newScore |-> NoScore]

\* no timer, no subscription
NoTask == [wallet |-> NoAddress, kind |-> "none", alive |-> FALSE,
           processedTxCache |-> {}]

\* the caches of a task that has delivered nothing
NoHashes == [pc |-> "idle", processedTxCache |-> <<>>, recentTxHashSet |-> <<>>,
             processedTransactions |-> <<>>, delivered |-> 0]

NoResult == [op |-> "none", wallet |-> NoAddress, success |-> FALSE,
             message |-> "none", existingScore |-> NoScore]

(***************************************************************************)
(* The WalletFlagger contract.  Times are in days.                         *)
(***************************************************************************)
\* the deployer (owner, soklinBackend and authorized flagger) and an account
\* without any role
Callers == {"backend", "stranger"}

\* msg.sender == owner || msg.sender == soklinBackend || authorizedFlaggers[..]
onlyAuthorized(sender) == sender = "backend"

\* the zero value of a WalletFlag, which "delete" leaves behind
NoFlag == [isFlagged |-> FALSE, riskLevel |-> "LOW", reputationScore |-> 0,
           flaggedAt |-> 0, expiresAt |-> 0]

\* the contract after its constructor
NewRegistry ==
    [flaggedWallets |-> [w \in WalletIds |-> NoFlag],
     allFlaggedWallets |-> <<>>,
     timestamp |-> 0,
     lastCall |-> [fn |-> "none", wallet |-> "none", ok |-> FALSE],
     history |-> [w \in WalletIds |-> [last |-> "none", expiresAt |-> 0]]]

\* _calculateRiskLevel with the thresholds of the constructor
calculateRiskLevel(reputationScore) ==
    IF reputationScore >= 70 THEN "LOW"
    ELSE IF reputationScore >= 50 THEN "MEDIUM"
    ELSE IF reputationScore >= 30 THEN "HIGH"
    ELSE "CRITICAL"

\* _calculateFlagDuration
calculateFlagDuration(riskLevel) ==
    IF riskLevel = "CRITICAL" THEN 365
    ELSE IF riskLevel = "HIGH" THEN 180
    ELSE IF riskLevel = "MEDIUM" THEN 90
    ELSE 30

\* a flag test that looks at the stored flag only
storedAsFlagged(reg, wallet) == reg.flaggedWallets[wallet].isFlagged

\* _isWalletFlagged
isWalletFlaggedOnChain(reg, wallet) ==
    LET flag == reg.flaggedWallets[wallet] IN
    IF ~flag.isFlagged THEN FALSE
    ELSE IF reg.timestamp > flag.expiresAt THEN FALSE
    ELSE TRUE

\* getActiveFlaggedCount
getActiveFlaggedCount(reg) ==
    Cardinality({i \in 1..Len(reg.allFlaggedWallets) :
                    isWalletFlaggedOnChain(reg, reg.allFlaggedWallets[i])})

\* _unflagWallet for each wallet of the set
unflagged(reg, wallets) ==
    [reg EXCEPT !.flaggedWallets =
                    [w \in WalletIds |-> IF w \in wallets THEN NoFlag ELSE @[w]],
                !.history =
                    [w \in WalletIds |->
                        IF w \in wallets THEN [last |-> "unflagged", expiresAt |-> 0]
                        ELSE @[w]]]

reverted(reg, fn, wallet) ==
    [reg EXCEPT !.lastCall = [fn |-> fn, wallet |-> wallet, ok |-> FALSE]]

RegistryScores == {20, 40, 101}

\* flagWallet(wallet, reputationScore, reason) sent by sender: the modifiers
\* onlyAuthorized, notFlagged and validReputationScore, then the body
FlagWallet(sender, wallet, reputationScore) ==
    /\ Len(registry.allFlaggedWallets) < MaxRegistryFlags
    /\ registry' =
          IF \/ ~onlyAuthorized(sender)
             \/ registry.flaggedWallets[wallet].isFlagged
             \/ reputationScore > 100
          THEN reverted(registry, "flagWallet", wallet)
          ELSE LET riskLevel == calculateRiskLevel(reputationScore)
                   expiresAt == registry.timestamp + calculateFlagDuration(riskLevel)
               IN [registry EXCEPT
                      !.flaggedWallets[wallet] =
                          [isFlagged |-> TRUE, riskLevel |-> riskLevel,
                           reputationScore |-> reputationScore,
                           flaggedAt |-> registry.timestamp, expiresAt |-> expiresAt],
                      !.allFlaggedWallets = Append(@, wallet),
                      !.history[wallet] = [last |-> "flagged", expiresAt |-> expiresAt],
                      !.lastCall = [fn |-> "flagWallet", wallet |-> wallet, ok |-> TRUE]]
    /\ wsOut' = <<>>
    /\ UNCHANGED <<hubTables, monitorVars, somniaVars, latestBlock, flaggedWallets,
                   flagCalls>>

\* unflagWallet(wallet) sent by sender: onlyAuthorized, isFlagged, _unflagWallet
UnflagWallet(sender, wallet) ==
    /\ registry' =
          IF ~onlyAuthorized(sender) \/ ~registry.flaggedWallets[wallet].isFlagged
          THEN reverted(registry, "unflagWallet", wallet)
          ELSE [unflagged(registry, {wallet}) EXCEPT
                   !.lastCall = [fn |-> "unflagWallet", wallet |-> wallet, ok |-> TRUE]]
    /\ wsOut' = <<>>
    /\ UNCHANGED <<hubTables, monitorVars, somniaVars, latestBlock, flaggedWallets,
                   flagCalls>>

\* cleanupExpiredFlags, which anyone may call
CleanupExpiredFlags ==
    /\ LET expired ==
              {registry.allFlaggedWallets[i] : i \in 1..Len(registry.allFlaggedWallets)}
              \cap {w \in WalletIds :
                       /\ registry.flaggedWallets[w].isFlagged
                       /\ registry.timestamp > registry.flaggedWallets[w].expiresAt}
       IN registry' = [unflagged(registry, expired) EXCEPT
                          !.lastCall = [fn |-> "cleanupExpiredFlags",
                                        wallet |-> "none", ok |-> TRUE]]
    /\ wsOut' = <<>>
    /\ UNCHANGED <<hubTables, monitorVars, somniaVars, latestBlock, flaggedWallets,
                   flagCalls>>

\* block.timestamp grows
DaysPass ==
    /\ registry.timestamp < MaxDays
    /\ registry' = [registry EXCEPT !.timestamp = @ + DaysPerStep]
    /\ wsOut' = <<>>
    /\ UNCHANGED <<hubTables, monitorVars, somniaVars, latestBlock, flaggedWallets,
                   flagCalls>>

\* the services after construction and initialize(), with the blacklist file
\* holding the given addresses; the hash caches of the polling tasks apart
InitOtherServices(blacklistData) ==
    /\ monitoredWallets = EmptyMap
    /\ eventBuffer = EmptyMap
    /\ startCalls = [c \in 1..MaxStartCalls |-> IdleStart]
    /\ walletEventCalls = [c \in 1..MaxEventCalls |-> IdleEvent]
    /\ batchTicks = [b \in 1..MaxBatchTicks |-> IdleBatch]
    /\ apiResult = NoResult
    /\ transactionHistory = [w \in Keys |-> <<>>]
    /\ blacklist = {toLowerCase(a) : a \in blacklistData}
    /\ scoringCall = NoCall
    /\ rescoreCall = IdleRescore
    /\ rescoreResults = <<>>
    /\ alertCall = NoAlert
    /\ somniaSubscribedWallets = {}
    /\ activeSubscriptions = EmptyMap
    /\ tasks = [t \in 1..MaxTasks |-> NoTask]
    /\ pollTicks = [i \in 1..MaxPollTicks |-> IdleTick]
    /\ delivered = [w \in Keys |-> <<>>]
    /\ latestBlock = 0
    /\ flaggedWallets = {}
    /\ registry = NewRegistry
    /\ flagCalls = <<>>

InitServices(blacklistData) ==
    /\ InitOtherServices(blacklistData)
    /\ hashCaches = NoHashes

\* the chain grows by a block
MineBlock ==
    /\ latestBlock < MaxBlock
    /\ latestBlock' = latestBlock + 1
    /\ wsOut' = <<>>
    /\ UNCHANGED <<hubTables, monitorVars, somniaVars, flaggedWallets, flagCalls,
                   registry>>

(***************************************************************************)
(* WalletMonitorService.calculateAndUpdateScore, in its two segments:      *)
(* up to the await of publishScoreToStream, and after it                   *)
(***************************************************************************)
\* the score update sent before the await
scoreBroadcast(walletAddress, events, previousScore, newScore) ==
    IF Len(events) > 0
    THEN <<Broadcast("score_update", walletAddress, 0)>>
    ELSE IF previousScore # NoScore /\ ~isSignificantScoreChange(previousScore, newScore)
    THEN <<>>
    ELSE <<Broadcast("score_update", walletAddress, 0)>>

\* the transaction alerts sent after the await, one for each event
alertBroadcasts(walletAddress, events) ==
    [i \in 1..Len(events) |->
        Broadcast("transaction_alert", walletAddress, events[i].hash)]

(***************************************************************************)
(* WalletMonitorService.startMonitoringWallet                              *)
(***************************************************************************)
\* a start that never finds the wallet monitored
startsAfresh(normalizedAddress) == FALSE

\* "Check if already monitoring": this.monitoredWallets.has(normalizedAddress)
isAlreadyMonitoring(normalizedAddress) == has(monitoredWallets, normalizedAddress)

StartResult(wallet, success, message, score) ==
    [op |-> "start", wallet |-> wallet, success |-> success,
     message |-> message, existingScore |-> score]

\* the call up to its first await: validation, the already-monitored check,
\* the new monitor object, and subscribeToWallet up to its first await
StartMonitoringWallet(walletAddress) ==
    LET validation == isValidEthereumAddress(walletAddress)
        normalizedAddress == validation.normalized
        c == FirstIdle(startCalls)
    IN /\ HasIdle(startCalls)
       /\ validation.isValid =>
              Len(transactionHistory[normalizedAddress]) < MaxHistoryLen
       /\ IF ~validation.isValid
          THEN /\ apiResult' = StartResult(walletAddress, FALSE, "failed", NoScore)
               /\ UNCHANGED <<startCalls, somniaSubscribedWallets>>
          ELSE IF isAlreadyMonitoring(normalizedAddress)
          THEN /\ apiResult' = StartResult(normalizedAddress, TRUE, "already monitored",
                                           monitoredWallets[normalizedAddress].lastScore)
               /\ UNCHANGED <<startCalls, somniaSubscribedWallets>>
          ELSE /\ startCalls' = [startCalls EXCEPT ![c] =
                      [IdleStart EXCEPT !.pc = "subscribing",
                                        !.wallet = normalizedAddress]]
               /\ somniaSubscribedWallets' =
                      somniaSubscribedWallets \cup {normalizedAddress}
               /\ UNCHANGED apiResult
       /\ wsOut' = <<>>
       /\ UNCHANGED <<hubTables, chainVars, monitoredWallets, eventBuffer,
                      walletEventCalls, batchTicks, transactionHistory, scoringVars,
                      activeSubscriptions, tasks, pollTicks, delivered>>

HasFreeTask == \E t \in DOMAIN tasks : tasks[t] = NoTask

FirstFreeTask ==
    CHOOSE t \in DOMAIN tasks :
        /\ tasks[t] = NoTask
        /\ \A u \in DOMAIN tasks : u < t => tasks[u] # NoTask

SubscribeOutcomes == {"push", "poll", "fail"}

\* subscribeToWallet settles: the SDK subscription was made ("push"), or it
\* failed and setupProviderPolling made a timer ("poll"), or both failed and
\* the tracking was removed ("fail").  The caller logs a failure and goes on:
\* it stores the monitor and begins to fetch the wallet's chain data.
SubscribeToWalletSettled(c, outcome) ==
    /\ startCalls[c].pc = "subscribing"
    /\ LET w == startCalls[c].wallet
           t == FirstFreeTask
       IN /\ IF outcome = "fail"
             THEN /\ somniaSubscribedWallets' = somniaSubscribedWallets \ {w}
                  /\ UNCHANGED <<tasks, activeSubscriptions>>
             ELSE /\ HasFreeTask
                  /\ tasks' = [tasks EXCEPT ![t] =
                         [wallet |-> w, kind |-> outcome, alive |-> TRUE,
                          processedTxCache |-> {}]]
                  /\ activeSubscriptions' = set(activeSubscriptions, w, t)
                  /\ UNCHANGED somniaSubscribedWallets
          /\ monitoredWallets' = set(monitoredWallets, w,
                 [eventCount |-> 0, lastScore |-> NoScore, isActive |-> TRUE])
          /\ startCalls' = [startCalls EXCEPT ![c].pc = "fetching",
                                              ![c].outcome = outcome]
    /\ wsOut' = <<>>
    /\ UNCHANGED <<hubTables, chainVars, eventBuffer, walletEventCalls, batchTicks,
                   apiResult, transactionHistory, scoringVars, pollTicks, delivered>>

FetchOutcomes == {"logs", "none"}

\* the reads of the chain settle (with the wallet's logs, or with no
\* transaction to look at) and calculateAndUpdateScore runs to its await;
\* without a monitor it returns null and the call finishes
BootstrapFetched(c, outcome) ==
    /\ startCalls[c].pc = "fetching"
    /\ LET w == startCalls[c].wallet
           currentBlockNumber == latestBlock
           startBlock == Max(1, currentBlockNumber - 10000)
           logs == IF outcome = "logs"
                   THEN getLogs(w, startBlock, currentBlockNumber) ELSE <<>>
           recentTxHashes == SliceLast(logs, 20)
           initialEvents == [i \in 1..Len(recentTxHashes) |->
                                WalletEvent(recentTxHashes[i])]
       IN IF ~has(monitoredWallets, w)
          THEN /\ wsOut' = IF Len(initialEvents) > 0
                           THEN alertBroadcasts(w, initialEvents)
                                \o <<Broadcast("score_update", w, 0)>>
                           ELSE <<>>
               /\ apiResult' = StartResult(w, TRUE, "started", NoScore)
               /\ startCalls' = [startCalls EXCEPT ![c] = IdleStart]
               /\ UNCHANGED <<monitoredWallets, transactionHistory>>
          ELSE LET previousScore == monitoredWallets[w].lastScore
                   newScore == calculateWalletScore(w, initialEvents,
                                                    transactionHistory[w])
               IN /\ transactionHistory' = [transactionHistory EXCEPT ![w] =
                         updateTransactionHistory(@, initialEvents)]
                  /\ monitoredWallets' =
                         [monitoredWallets EXCEPT ![w].lastScore = newScore]
                  /\ wsOut' = scoreBroadcast(w, initialEvents, previousScore, newScore)
                  /\ startCalls' = [startCalls EXCEPT ![c].pc = "publishing",
                                                      ![c].initialEvents = initialEvents,
                                                      ![c].initialScore = newScore,
                                                      ![c].scoreUpdates =
                           Len(scoreBroadcast(w, initialEvents, previousScore, newScore))]
                  /\ UNCHANGED apiResult
    /\ UNCHANGED <<hubTables, chainVars, somniaVars, eventBuffer, walletEventCalls,
                   batchTicks, scoringVars>>

\* publishScoreToStream settles: the alerts of calculateAndUpdateScore, then
\* the historical transactions and the score once more, and the result
StartPublished(c) ==
    /\ startCalls[c].pc = "publishing"
    /\ LET w == startCalls[c].wallet
           initialEvents == startCalls[c].initialEvents
       IN /\ wsOut' = alertBroadcasts(w, initialEvents)
                      \o (IF Len(initialEvents) > 0
                          THEN alertBroadcasts(w, initialEvents)
                               \o <<Broadcast("score_update", w, 0)>>
                          ELSE <<>>)
          /\ apiResult' = StartResult(w, TRUE, "started", startCalls[c].initialScore)
    /\ startCalls' = [startCalls EXCEPT ![c] = IdleStart]
    /\ UNCHANGED <<hubTables, chainVars, somniaVars, monitoredWallets, eventBuffer,
                   walletEventCalls, batchTicks, transactionHistory, scoringVars>>

\* eventBuffer.delete or eventBuffer.set(walletAddress, []) by another run: the
\* array a run in progress iterates is no longer the stored one
detached(ticks, walletAddress, except) ==
    [b \in DOMAIN ticks |->
        IF b \notin except /\ ticks[b].pc # "idle" /\ ticks[b].wallet = walletAddress
        THEN [ticks[b] EXCEPT !.live = FALSE] ELSE ticks[b]]

\* buffer.push(event) on the stored array, seen by the runs that iterate it
pushed(ticks, walletAddress, event) ==
    [b \in DOMAIN ticks |->
        IF ticks[b].pc # "idle" /\ ticks[b].wallet = walletAddress /\ ticks[b].live
        THEN [ticks[b] EXCEPT !.events = Append(@, event)] ELSE ticks[b]]

(***************************************************************************)
(* SomniaService.unsubscribeFromWallet and                                 *)
(* WalletMonitorService.stopMonitoringWallet                               *)
(***************************************************************************)
\* a cleared timer (or ended subscription) none of whose callbacks is still
\* running can do nothing more: it no longer exists
collectTasks(taskTable, ticks) ==
    [t \in DOMAIN taskTable |->
        IF /\ ~taskTable[t].alive
           /\ \A i \in DOMAIN ticks : ticks[i].pc # "idle" => ticks[i].task # t
        THEN NoTask ELSE taskTable[t]]

\* unsubscribeFromWallet: subscription.unsubscribe() of the stored
\* subscription object, i.e. clearInterval or the SDK's unsubscribe
unsubscribed(normalizedAddress) ==
    IF has(activeSubscriptions, normalizedAddress)
    THEN [tasks EXCEPT ![activeSubscriptions[normalizedAddress]].alive = FALSE]
    ELSE tasks

StopResult(wallet, success, message) ==
    [op |-> "stop", wallet |-> wallet, success |-> success,
     message |-> message, existingScore |-> NoScore]

\* stopMonitoringWallet; unsubscribeFromWallet has no await inside, so the
\* whole call is one segment
StopMonitoringWallet(walletAddress) ==
    LET validation == isValidEthereumAddress(walletAddress)
        normalizedAddress == validation.normalized
    IN /\ IF ~validation.isValid
          THEN /\ apiResult' = StopResult(walletAddress, FALSE, "failed")
               /\ UNCHANGED <<tasks, activeSubscriptions, somniaSubscribedWallets,
                              monitoredWallets, eventBuffer, batchTicks>>
          ELSE IF ~has(monitoredWallets, normalizedAddress)
          THEN /\ apiResult' = StopResult(normalizedAddress, FALSE, "not monitored")
               /\ UNCHANGED <<tasks, activeSubscriptions, somniaSubscribedWallets,
                              monitoredWallets, eventBuffer, batchTicks>>
          ELSE /\ tasks' = collectTasks(unsubscribed(normalizedAddress), pollTicks)
               /\ activeSubscriptions' = delete(activeSubscriptions, normalizedAddress)
               /\ somniaSubscribedWallets' =
                      somniaSubscribedWallets \ {normalizedAddress}
               /\ monitoredWallets' = delete(monitoredWallets, normalizedAddress)
               /\ eventBuffer' = delete(eventBuffer, normalizedAddress)
               /\ batchTicks' = detached(batchTicks, normalizedAddress, {})
               /\ apiResult' = StopResult(normalizedAddress, TRUE, "stopped")
       /\ wsOut' = <<>>
       /\ UNCHANGED <<hubTables, chainVars, startCalls, walletEventCalls,
                      transactionHistory, scoringVars, pollTicks, delivered>>

(***************************************************************************)
(* WalletMonitorService.handleWalletEvent, processSingleEvent, bufferEvent *)
(***************************************************************************)
bufferedEvents(walletAddress) ==
    IF has(eventBuffer, walletAddress) THEN eventBuffer[walletAddress] ELSE <<>>

\* the callback handed to the Ingester, run up to the await of
\* publishScoreToStream in calculateAndUpdateScore
handleWalletEvent(walletAddress, event) ==
    IF ~has(monitoredWallets, walletAddress)
    THEN /\ wsOut' = <<>>
         /\ UNCHANGED <<monitoredWallets, transactionHistory, walletEventCalls>>
    ELSE IF ~monitoredWallets[walletAddress].isActive
    THEN /\ wsOut' = <<>>
         /\ UNCHANGED <<monitoredWallets, transactionHistory, walletEventCalls>>
    ELSE LET j == FirstIdle(walletEventCalls)
             allEvents == <<event>> \o bufferedEvents(walletAddress)
             previousScore == monitoredWallets[walletAddress].lastScore
             newScore == calculateWalletScore(walletAddress, allEvents,
                                              transactionHistory[walletAddress])
         IN /\ HasIdle(walletEventCalls)
            /\ monitoredWallets' =
                   [monitoredWallets EXCEPT ![walletAddress].eventCount = @ + 1,
                                            ![walletAddress].lastScore = newScore]
            /\ transactionHistory' = [transactionHistory EXCEPT ![walletAddress] =
                   updateTransactionHistory(@, allEvents)]
            /\ wsOut' = scoreBroadcast(walletAddress, allEvents, previousScore, newScore)
            /\ walletEventCalls' = [walletEventCalls EXCEPT ![j] =
                   [pc |-> "publishing", wallet |-> walletAddress, event |-> event,
                    allEvents |-> allEvents, newScore |-> newScore]]

\* bufferEvent: the buffer after the push and the truncation
bufferEvent(walletAddress, event) ==
    LET buffer == bufferedEvents(walletAddress) \o <<event>>
    IN set(eventBuffer, walletAddress,
           IF Len(buffer) > 1000 THEN SliceLast(buffer, 500) ELSE buffer)

\* publishScoreToStream settles in a handleWalletEvent call: the alerts of
\* calculateAndUpdateScore, the alert and score update of processSingleEvent,
\* then bufferEvent
WalletEventPublished(j) ==
    /\ walletEventCalls[j].pc = "publishing"
    /\ LET w == walletEventCalls[j].wallet
           event == walletEventCalls[j].event
       IN /\ wsOut' = alertBroadcasts(w, walletEventCalls[j].allEvents)
                      \o <<Broadcast("transaction_alert", w, event.hash),
                           Broadcast("score_update", w, 0)>>
          /\ eventBuffer' = bufferEvent(w, event)
          /\ batchTicks' = pushed(batchTicks, w, event)
    /\ walletEventCalls' = [walletEventCalls EXCEPT ![j] = IdleEvent]
    /\ UNCHANGED <<hubTables, chainVars, somniaVars, monitoredWallets, startCalls,
                   apiResult, transactionHistory, scoringVars>>

(***************************************************************************)
(* SomniaService: the polling timer of setupProviderPolling, and the       *)
(* onData and onError handlers of the SDK subscription                     *)
(***************************************************************************)
\* the loop's "continue" on a hash found in the caches (recentTxHashSet and
\* processedTxCache hold the same hashes; only processedTxCache is kept)
RECURSIVE skipProcessed(_, _)
skipProcessed(hashes, processedTxCache) ==
    IF hashes = <<>> THEN <<>>
    ELSE IF Head(hashes) \in processedTxCache
    THEN skipProcessed(Tail(hashes), processedTxCache)
    ELSE hashes

FetchingTick(t, dedup, hashes) ==
    [pc |-> "fetching", task |-> t, wallet |-> tasks[t].wallet, dedup |-> dedup,
     pending |-> Head(hashes), rest |-> Tail(hashes)]

\* the timer of task t fires: getBlockNumber and getLogs settle, and the loop
\* runs to the await of getTransaction for the first hash not yet processed
\* (a tick that finds no such hash changes nothing)
PollTimerFires(t) ==
    /\ tasks[t].kind = "poll"
    /\ tasks[t].alive
    /\ HasIdle(pollTicks)
    /\ Len(delivered[tasks[t].wallet]) < MaxDelivered
    /\ LET recentFromBlock == Max(1, latestBlock - 20)
           logs == getLogs(tasks[t].wallet, recentFromBlock, latestBlock)
           todo == skipProcessed(logs, tasks[t].processedTxCache)
       IN /\ todo # <<>>
          /\ pollTicks' = [pollTicks EXCEPT ![FirstIdle(pollTicks)] =
                              FetchingTick(t, TRUE, todo)]
    /\ wsOut' = <<>>
    /\ UNCHANGED <<hubTables, chainVars, monitorVars, somniaSubscribedWallets,
                   activeSubscriptions, tasks, delivered>>

\* onData of the SDK subscription t with data that holds no event:
\* fetchWalletTransactionsForSomnia reads the logs from block 1 and runs to
\* the await of getTransaction for the first of them
PushDataArrives(t) ==
    /\ tasks[t].kind = "push"
    /\ tasks[t].alive
    /\ HasIdle(pollTicks)
    /\ Len(delivered[tasks[t].wallet]) < MaxDelivered
    /\ LET logs == getLogs(tasks[t].wallet, 1, latestBlock)
       IN /\ logs # <<>>
          /\ pollTicks' = [pollTicks EXCEPT ![FirstIdle(pollTicks)] =
                              FetchingTick(t, FALSE, logs)]
    /\ wsOut' = <<>>
    /\ UNCHANGED <<hubTables, chainVars, monitorVars, somniaSubscribedWallets,
                   activeSubscriptions, tasks, delivered>>

\* onError of the SDK subscription t, which ends with the error:
\* setupProviderPolling makes a timer and stores it as the wallet's
\* subscription object
SubscriptionError(t) ==
    /\ tasks[t].kind = "push"
    /\ tasks[t].alive
    /\ HasFreeTask
    /\ tasks' = collectTasks(
           [tasks EXCEPT ![t].alive = FALSE,
                         ![FirstFreeTask] =
                             [wallet |-> tasks[t].wallet, kind |-> "poll",
                              alive |-> TRUE, processedTxCache |-> {}]],
           pollTicks)
    /\ activeSubscriptions' = set(activeSubscriptions, tasks[t].wallet, FirstFreeTask)
    /\ wsOut' = <<>>
    /\ UNCHANGED <<hubTables, chainVars, monitorVars, somniaSubscribedWallets,
                   pollTicks, delivered>>

TransactionOutcomes == {"event", "skipped"}

\* getTransaction, getTransactionReceipt, getBlock and getCode settle for the
\* pending hash of tick i: with the transaction ("event": callback(event),
\* then the hash goes to the caches), or with null or an error ("skipped");
\* the loop then runs to its next await or to its end
TransactionFetched(i, outcome) ==
    /\ pollTicks[i].pc = "fetching"
    /\ outcome = "event" => Len(delivered[pollTicks[i].wallet]) < MaxDelivered
    /\ LET tick == pollTicks[i]
           w == tick.wallet
           txHash == tick.pending
           isEvent == outcome = "event" /\ involvesWallet(txHash, w)
           cache == IF isEvent /\ tick.dedup
                    THEN tasks[tick.task].processedTxCache \cup {txHash}
                    ELSE tasks[tick.task].processedTxCache
           todo == IF tick.dedup THEN skipProcessed(tick.rest, cache) ELSE tick.rest
           ticksAfter == [pollTicks EXCEPT ![i] =
                             IF todo = <<>> THEN IdleTick
                             ELSE [tick EXCEPT !.pending = Head(todo),
                                               !.rest = Tail(todo)]]
       IN /\ pollTicks' = ticksAfter
          /\ tasks' = collectTasks(
                 [tasks EXCEPT ![tick.task].processedTxCache = cache], ticksAfter)
          /\ IF isEvent
             THEN /\ delivered' = [delivered EXCEPT ![w] = Append(@, WalletEvent(txHash))]
                  /\ handleWalletEvent(w, WalletEvent(txHash))
             ELSE /\ wsOut' = <<>>
                  /\ UNCHANGED <<delivered, monitoredWallets, transactionHistory,
                                 walletEventCalls>>
    /\ UNCHANGED <<hubTables, chainVars, somniaSubscribedWallets, activeSubscriptions,
                   eventBuffer, startCalls, batchTicks, apiResult, scoringVars>>

(***************************************************************************)
(* The hash caches of a polling task over a long run.  A JavaScript Set    *)
(* keeps its entries in insertion order; each cache is the sequence of its *)
(* entries.  The task's own hashes are 1, 2, ...; the hashes of the other  *)
(* wallets' tasks are the numbers above otherHashes.                       *)
(***************************************************************************)
otherHashes == 100000

\* a cache after set.add(txHash)
added(cache, txHash) ==
    IF \E i \in 1..Len(cache) : cache[i] = txHash THEN cache
    ELSE Append(cache, txHash)

\* markTxProcessed: processedTransactions after the call
markTxProcessed(processedTransactions, txHash) ==
    LET entries == added(processedTransactions, txHash) IN
    IF Len(entries) > maxProcessedTransactions
    THEN SubSeq(entries, removedProcessedTransactions + 1, Len(entries))
    ELSE entries

\* the cleanup of recentTxHashSet at the end of a tick
cleanedUp(recentTxHashSet) ==
    IF Len(recentTxHashSet) > maxRecentTxHashes
    THEN SubSeq(recentTxHashSet, Len(recentTxHashSet) - keptRecentTxHashes + 1,
                Len(recentTxHashSet))
    ELSE recentTxHashSet

\* the timer callback delivers a transaction it has not processed yet: the
\* hash goes to the three caches
HashDelivered ==
    /\ hashCaches.delivered < MaxCacheDeliveries
    /\ LET txHash == Len(hashCaches.processedTxCache) + 1 IN
       hashCaches' =
           [pc |-> "polling",
            processedTxCache |-> added(hashCaches.processedTxCache, txHash),
            recentTxHashSet |-> added(hashCaches.recentTxHashSet, txHash),
            processedTransactions |->
                markTxProcessed(hashCaches.processedTransactions, txHash),
            delivered |-> hashCaches.delivered + 1]
    /\ wsOut' = <<>>
    /\ UNCHANGED <<hubTables, chainVars, somniaVars, monitoredWallets, eventBuffer,
                   startCalls, walletEventCalls, batchTicks, apiResult,
                   transactionHistory, blacklist, scoringCall, rescoreCall,
                   rescoreResults, alertCall>>

\* the timer callback reaches its end: the cleanup of the local cache
PollTickEnds ==
    /\ hashCaches.pc = "polling"
    /\ hashCaches' = [hashCaches EXCEPT
                         !.pc = "idle",
                         !.recentTxHashSet = cleanedUp(@)]
    /\ wsOut' = <<>>
    /\ UNCHANGED <<hubTables, chainVars, somniaVars, monitoredWallets, eventBuffer,
                   startCalls, walletEventCalls, batchTicks, apiResult,
                   transactionHistory, blacklist, scoringCall, rescoreCall,
                   rescoreResults, alertCall>>

\* block.transactions of the blocks fromBlock..toBlock, in block order
blockTransactions(fromBlock, toBlock) ==
    [k \in 1..(toBlock - fromBlock + 1) |-> fromBlock + k - 1]

\* the timer of task t fires and getLogs throws: the callback falls back to
\* reading the blocks one by one and runs to the await of getTransaction for
\* the first hash of theirs not yet processed
PollTimerFiresLogsFail(t) ==
    /\ tasks[t].kind = "poll"
    /\ tasks[t].alive
    /\ HasIdle(pollTicks)
    /\ Len(delivered[tasks[t].wallet]) < MaxDelivered
    /\ LET recentFromBlock == Max(1, latestBlock - 20)
           hashes == blockTransactions(recentFromBlock, latestBlock)
           todo == skipProcessed(hashes, tasks[t].processedTxCache)
       IN /\ todo # <<>>
          /\ pollTicks' = [pollTicks EXCEPT ![FirstIdle(pollTicks)] =
                              [FetchingTick(t, TRUE, todo) EXCEPT !.pc = "scanning"]]
    /\ wsOut' = <<>>
    /\ UNCHANGED <<hubTables, chainVars, monitorVars, somniaSubscribedWallets,
                   activeSubscriptions, tasks, delivered>>

\* what the provider may answer for a transaction: the transaction with its
\* receipt, the transaction with a null receipt, or null or an error
ReceiptOutcomes == {"event", "noReceipt", "skipped"}

\* the block scan builds the event with or without a receipt
\* (status: receipt ? ... : 'success')
builtInBlockScan(outcome) == outcome \in {"event", "noReceipt"}

\* getTransaction and getTransactionReceipt settle for the pending hash of a
\* tick in the block scan: the event is built and passed to callback(event),
\* and the hash goes to the caches, also when the receipt is null; on a null
\* transaction or an error the loop continues
BlockTransactionFetched(i, outcome) ==
    /\ pollTicks[i].pc = "scanning"
    /\ builtInBlockScan(outcome) => Len(delivered[pollTicks[i].wallet]) < MaxDelivered
    /\ LET tick == pollTicks[i]
           w == tick.wallet
           txHash == tick.pending
           isEvent == involvesWallet(txHash, w) /\ builtInBlockScan(outcome)
           cache == IF isEvent
                    THEN tasks[tick.task].processedTxCache \cup {txHash}
                    ELSE tasks[tick.task].processedTxCache
           todo == skipProcessed(tick.rest, cache)
           ticksAfter == [pollTicks EXCEPT ![i] =
                             IF todo = <<>> THEN IdleTick
                             ELSE [tick EXCEPT !.pending = Head(todo),
                                               !.rest = Tail(todo)]]
       IN /\ pollTicks' = ticksAfter
          /\ tasks' = collectTasks(
                 [tasks EXCEPT ![tick.task].processedTxCache = cache], ticksAfter)
          /\ IF isEvent
             THEN /\ delivered' = [delivered EXCEPT ![w] = Append(@, WalletEvent(txHash))]
                  /\ handleWalletEvent(w, WalletEvent(txHash))
             ELSE /\ wsOut' = <<>>
                  /\ UNCHANGED <<delivered, monitoredWallets, transactionHistory,
                                 walletEventCalls>>
    /\ UNCHANGED <<hubTables, chainVars, somniaSubscribedWallets, activeSubscriptions,
                   eventBuffer, startCalls, batchTicks, apiResult, scoringVars>>


(***************************************************************************)
(* WalletMonitorService.processBufferedEvents (a run of the batch timer)   *)
(* and checkAndFlagWallet.  Only w1 receives events, so a run has one      *)
(* wallet to visit.                                                        *)
(***************************************************************************)
\* "Clear processed events from buffer" and the end of the run b
finishBatch(b, walletAddress) ==
    /\ eventBuffer' = set(eventBuffer, walletAddress, <<>>)
    /\ batchTicks' = [detached(batchTicks, walletAddress, {b}) EXCEPT ![b] = IdleBatch]

\* the batch timer fires: the run takes the wallet's buffered events and
\* calculateAndUpdateScore runs to its await; without a monitor it returns
\* null and the buffer is cleared at once
BatchTimerFires(w) ==
    /\ HasIdle(batchTicks)
    /\ has(eventBuffer, w)
    /\ Len(eventBuffer[w]) > 0
    /\ LET b == FirstIdle(batchTicks)
           events == eventBuffer[w]
       IN IF ~has(monitoredWallets, w)
          THEN /\ finishBatch(b, w)
               /\ wsOut' = <<>>
               /\ UNCHANGED <<monitoredWallets, transactionHistory>>
          ELSE LET previousScore == monitoredWallets[w].lastScore
                   newScore == calculateWalletScore(w, events, transactionHistory[w])
               IN /\ transactionHistory' = [transactionHistory EXCEPT ![w] =
                         updateTransactionHistory(@, events)]
                  /\ monitoredWallets' =
                         [monitoredWallets EXCEPT ![w].lastScore = newScore]
                  /\ wsOut' = scoreBroadcast(w, events, previousScore, newScore)
                  /\ batchTicks' = [batchTicks EXCEPT ![b] =
                         [pc |-> "publishing", wallet |-> w, events |-> events,
                          live |-> TRUE, scored |-> events,
                          newScore |-> newScore]]
                  /\ UNCHANGED eventBuffer
    /\ UNCHANGED <<hubTables, chainVars, somniaVars, startCalls, walletEventCalls,
                   apiResult, scoringVars>>

\* a test of the score that lets every score through
flagsAnyScore(score) == TRUE

\* checkAndFlagWallet's test of the score
shouldFlag(score) ==
    score.reputationScore < FLAGGING_THRESHOLD /\ score.riskLevel = "critical"

\* publishScoreToStream settles in run b: the alerts of calculateAndUpdateScore;
\* then checkAndFlagWallet runs to the await of isWalletFlagged, or the run
\* broadcasts the score and clears the buffer
BatchPublished(b) ==
    /\ batchTicks[b].pc = "publishing"
    /\ LET w == batchTicks[b].wallet
           alerts == alertBroadcasts(w, batchTicks[b].events)
       IN IF shouldFlag(batchTicks[b].newScore)
          THEN /\ batchTicks' = [batchTicks EXCEPT ![b].pc = "checking"]
               /\ wsOut' = alerts
               /\ UNCHANGED eventBuffer
          ELSE /\ finishBatch(b, w)
               /\ wsOut' = alerts \o <<Broadcast("score_update", w, 0)>>
    /\ UNCHANGED <<hubTables, chainVars, somniaVars, monitoredWallets, startCalls,
                   walletEventCalls, apiResult, transactionHistory, scoringVars>>

\* riskLevelToContractValue
riskLevelToContractValue(riskLevel) ==
    CASE riskLevel = "low" -> 0
      [] riskLevel = "medium" -> 1
      [] riskLevel = "high" -> 2
      [] riskLevel = "critical" -> 3

\* the arguments contractService.flagWallet passes to contract.flagWallet,
\* before the overrides object: each with the kind of value it is
flagWalletArguments(walletAddress, score) ==
    <<[kind |-> "address", value |-> walletAddress],
      [kind |-> "number", value |-> riskLevelToContractValue(score.riskLevel)],
      [kind |-> "number", value |-> score.reputationScore],
      [kind |-> "string", value |-> "Critical risk score detected"]>>

\* the parameters of flagWallet in the ABI the client's contract object is
\* built from
contractABI_flagWallet == <<"address">>

\* the parameters of flagWallet as WalletFlagger.sol declares it
WalletFlagger_flagWallet == <<"address", "uint256", "string">>

\* a value of the given kind can be encoded as the given Solidity type
encodesAs(kind, type) ==
    \/ kind = "address" /\ type = "address"
    \/ kind = "number" /\ type \in {"uint8", "uint256"}
    \/ kind = "string" /\ type = "string"

\* the argument list fits the parameter list: same length, each argument of
\* its parameter's type
fitsParameters(arguments, parameters) ==
    /\ Len(arguments) = Len(parameters)
    /\ \A i \in 1..Len(arguments) : encodesAs(arguments[i].kind, parameters[i])

\* contract.isWalletFlagged settles in run b: a flagged wallet ends the check;
\* otherwise contractService.flagWallet submits the flag transaction
FlagChecked(b) ==
    /\ batchTicks[b].pc = "checking"
    /\ LET w == batchTicks[b].wallet
       IN IF w \in flaggedWallets
          THEN /\ finishBatch(b, w)
               /\ wsOut' = <<Broadcast("score_update", w, 0)>>
               /\ UNCHANGED flagCalls
          ELSE /\ Len(flagCalls) < MaxFlagCalls
               /\ batchTicks' = [batchTicks EXCEPT ![b].pc = "flagging"]
               /\ flagCalls' = Append(flagCalls,
                      [wallet |-> w, events |-> batchTicks[b].events,
                       arguments |-> flagWalletArguments(w, batchTicks[b].newScore)])
               /\ wsOut' = <<>>
               /\ UNCHANGED eventBuffer
    /\ UNCHANGED <<hubTables, latestBlock, flaggedWallets, registry, somniaVars,
                   monitoredWallets, startCalls, walletEventCalls, apiResult,
                   transactionHistory, scoringVars>>

\* the flag transaction of run b is confirmed (success) or fails; the
\* contract rejects the flag of a wallet that is flagged already
FlagSettled(b, success) ==
    /\ batchTicks[b].pc = "flagging"
    /\ LET w == batchTicks[b].wallet
       IN /\ success => w \notin flaggedWallets
          /\ flaggedWallets' = IF success THEN flaggedWallets \cup {w}
                               ELSE flaggedWallets
          /\ finishBatch(b, w)
          /\ wsOut' = (IF success THEN <<Broadcast("wallet_flagged", w, 0)>> ELSE <<>>)
                      \o <<Broadcast("score_update", w, 0)>>
    /\ UNCHANGED <<hubTables, latestBlock, flagCalls, registry, somniaVars,
                   monitoredWallets, startCalls, walletEventCalls, apiResult,
                   transactionHistory, scoringVars>>

(***************************************************************************)
(* Specifications                                                          *)
(***************************************************************************)
\* the server after start-up, with an empty blacklist file
Init == InitHub /\ InitServices({})

StartSteps ==
    \/ \E c \in 1..MaxStartCalls, outcome \in SubscribeOutcomes :
           SubscribeToWalletSettled(c, outcome)
    \/ \E c \in 1..MaxStartCalls, outcome \in FetchOutcomes :
           BootstrapFetched(c, outcome)
    \/ \E c \in 1..MaxStartCalls : StartPublished(c)

IngestSteps ==
    \/ \E t \in 1..MaxTasks : PollTimerFires(t)
    \/ \E t \in 1..MaxTasks : PushDataArrives(t)
    \/ \E t \in 1..MaxTasks : SubscriptionError(t)
    \/ \E i \in 1..MaxPollTicks, outcome \in TransactionOutcomes :
           TransactionFetched(i, outcome)
    \/ \E j \in 1..MaxEventCalls : WalletEventPublished(j)

BatchSteps ==
    \/ \E w \in Keys : BatchTimerFires(w)
    \/ \E b \in 1..MaxBatchTicks : BatchPublished(b)
    \/ \E b \in 1..MaxBatchTicks : FlagChecked(b)
    \/ \E b \in 1..MaxBatchTicks, success \in BOOLEAN : FlagSettled(b, success)

\* the wallet arguments of the API calls: w1 in two spellings, and a string
\* that is no address
ApiInputs == {<<"w1", "lower">>, <<"w1", "checksum">>, Malformed}

\* the Coordinator's API under calls that may overlap
NextLifecycle ==
    \/ MineBlock
    \/ \E s \in ApiInputs : StartMonitoringWallet(s)
    \/ \E s \in ApiInputs : StopMonitoringWallet(s)
    \/ StartSteps

SpecLifecycle == Init /\ [][NextLifecycle]_vars

NoStartInProgress == \A c \in 1..MaxStartCalls : startCalls[c].pc = "idle"

\* the Coordinator's API under calls made one after the other
NextRestart ==
    \/ MineBlock
    \/ \E s \in ApiInputs : NoStartInProgress /\ StartMonitoringWallet(s)
    \/ \E s \in ApiInputs : NoStartInProgress /\ StopMonitoringWallet(s)
    \/ StartSteps

SpecRestart == Init /\ [][NextRestart]_vars

\* the wallet that is monitored in the runs of the pipeline
MonitoredWallet == <<"w1", "checksum">>

\* the server some time after startMonitoringWallet(MonitoredWallet) returned:
\* the subscription of the given kind exists, the chain had no block yet,
\* the initial score was computed from no event
InitMonitored(kind, blacklistData) ==
    /\ InitHub
    /\ blacklist = {toLowerCase(a) : a \in blacklistData}
    /\ scoringCall = NoCall
    /\ rescoreCall = IdleRescore
    /\ rescoreResults = <<>>
    /\ alertCall = NoAlert
    /\ hashCaches = NoHashes
    /\ transactionHistory = [w \in Keys |-> <<>>]
    /\ monitoredWallets = set(EmptyMap, MonitoredWallet,
           [eventCount |-> 0, isActive |-> TRUE,
            lastScore |-> calculateWalletScore(MonitoredWallet, <<>>, <<>>)])
    /\ eventBuffer = EmptyMap
    /\ startCalls = [c \in 1..MaxStartCalls |-> IdleStart]
    /\ walletEventCalls = [c \in 1..MaxEventCalls |-> IdleEvent]
    /\ batchTicks = [b \in 1..MaxBatchTicks |-> IdleBatch]
    /\ apiResult = StartResult(MonitoredWallet, TRUE, "started",
                               monitoredWallets[MonitoredWallet].lastScore)
    /\ somniaSubscribedWallets = {MonitoredWallet}
    /\ activeSubscriptions = set(EmptyMap, MonitoredWallet, 1)
    /\ tasks = [t \in 1..MaxTasks |->
                   IF t = 1 THEN [wallet |-> MonitoredWallet, kind |-> kind,
                                  alive |-> TRUE, processedTxCache |-> {}]
                   ELSE NoTask]
    /\ pollTicks = [i \in 1..MaxPollTicks |-> IdleTick]
    /\ delivered = [w \in Keys |-> <<>>]
    /\ latestBlock = 0
    /\ flaggedWallets = {}
    /\ registry = NewRegistry
    /\ flagCalls = <<>>

InitIngest == \E kind \in {"poll", "push"} : InitMonitored(kind, {})

\* the Ingester at work for a monitored wallet, which may be stopped
NextIngest ==
    \/ MineBlock
    \/ StopMonitoringWallet(MonitoredWallet)
    \/ IngestSteps

SpecIngest == InitIngest /\ [][NextIngest]_vars

\* the polling timer at work for a monitored wallet while the provider
\* answers with null receipts and failing getLogs calls
NextPending ==
    \/ MineBlock
    \/ \E t \in 1..MaxTasks : PollTimerFires(t)
    \/ \E t \in 1..MaxTasks : PollTimerFiresLogsFail(t)
    \/ \E i \in 1..MaxPollTicks, outcome \in ReceiptOutcomes :
           TransactionFetched(i, outcome)
    \/ \E i \in 1..MaxPollTicks, outcome \in ReceiptOutcomes :
           BlockTransactionFetched(i, outcome)
    \/ \E j \in 1..MaxEventCalls : WalletEventPublished(j)

SpecPending == InitMonitored("poll", {}) /\ [][NextPending]_vars

InitBatch == \E data \in SUBSET {MonitoredWallet} : InitMonitored("poll", data)

\* the batch timer at work for a monitored wallet, blacklisted or not
NextBatch ==
    \/ MineBlock
    \/ \E t \in 1..MaxTasks : PollTimerFires(t)
    \/ \E i \in 1..MaxPollTicks, outcome \in TransactionOutcomes :
           TransactionFetched(i, outcome)
    \/ \E j \in 1..MaxEventCalls : WalletEventPublished(j)
    \/ BatchSteps

SpecBatch == InitBatch /\ [][NextBatch]_vars

(***************************************************************************)
(* WalletMonitorService.recalculateScore (GET /:address/score?refresh=true)*)
(***************************************************************************)
RescoreResult(wallet, success, message, score) ==
    [op |-> "rescore", wallet |-> wallet, success |-> success, message |-> message,
     existingScore |-> score]

\* recalculateScore(walletAddress) up to the await of publishScoreToStream in
\* calculateAndUpdateScore; it throws for a string that is no address and
\* for a wallet without a monitor
RecalculateScore(walletAddress) ==
    /\ rescoreCall.pc = "idle"
    /\ Len(rescoreResults) < MaxRescores
    /\ LET validation == isValidEthereumAddress(walletAddress)
           normalizedAddress == validation.normalized
       IN IF ~validation.isValid
          THEN /\ apiResult' = RescoreResult(walletAddress, FALSE, "invalid", NoScore)
               /\ wsOut' = <<>>
               /\ UNCHANGED <<monitoredWallets, transactionHistory, rescoreCall>>
          ELSE IF ~has(monitoredWallets, normalizedAddress)
          THEN /\ apiResult' = RescoreResult(normalizedAddress, FALSE,
                                             "not monitored", NoScore)
               /\ wsOut' = <<>>
               /\ UNCHANGED <<monitoredWallets, transactionHistory, rescoreCall>>
          ELSE LET events == bufferedEvents(normalizedAddress)
                   previousScore == monitoredWallets[normalizedAddress].lastScore
                   newScore == calculateWalletScore(normalizedAddress, events,
                                   transactionHistory[normalizedAddress])
               IN /\ transactionHistory' =
                         [transactionHistory EXCEPT ![normalizedAddress] =
                             updateTransactionHistory(@, events)]
                  /\ monitoredWallets' =
                         [monitoredWallets EXCEPT ![normalizedAddress].lastScore = newScore]
                  /\ wsOut' = scoreBroadcast(normalizedAddress, events,
                                             previousScore, newScore)
                  /\ rescoreCall' =
                         [pc |-> "publishing", wallet |-> normalizedAddress,
                          events |-> events,
                          eventCount |-> monitoredWallets[normalizedAddress].eventCount,
                          newScore |-> newScore]
                  /\ UNCHANGED apiResult
    /\ UNCHANGED <<hubTables, chainVars, somniaVars, eventBuffer, startCalls,
                   walletEventCalls, batchTicks, blacklist, scoringCall,
                   rescoreResults, alertCall, hashCaches>>

\* publishScoreToStream settles in the recalculateScore call: the alerts of
\* calculateAndUpdateScore, and the score is returned
RescorePublished ==
    /\ rescoreCall.pc = "publishing"
    /\ wsOut' = alertBroadcasts(rescoreCall.wallet, rescoreCall.events)
    /\ apiResult' = RescoreResult(rescoreCall.wallet, TRUE, "rescored",
                                  rescoreCall.newScore)
    /\ rescoreResults' = Append(rescoreResults,
           [wallet |-> rescoreCall.wallet, events |-> rescoreCall.events,
            eventCount |-> rescoreCall.eventCount, score |-> rescoreCall.newScore])
    /\ rescoreCall' = IdleRescore
    /\ UNCHANGED <<hubTables, chainVars, somniaVars, monitoredWallets, eventBuffer,
                   startCalls, walletEventCalls, batchTicks, transactionHistory,
                   blacklist, scoringCall, alertCall, hashCaches>>

\* a monitored wallet that receives events, is rescored on request and may
\* be stopped
NextRescore ==
    \/ MineBlock
    \/ \E t \in 1..MaxTasks : PollTimerFires(t)
    \/ \E i \in 1..MaxPollTicks, outcome \in TransactionOutcomes :
           TransactionFetched(i, outcome)
    \/ \E j \in 1..MaxEventCalls : WalletEventPublished(j)
    \/ \E s \in ApiInputs : RecalculateScore(s)
    \/ RescorePublished
    \/ StopMonitoringWallet(MonitoredWallet)

SpecRescore == InitMonitored("poll", {}) /\ [][NextRescore]_vars

(***************************************************************************)
(* WalletMonitorService.bufferEvent on a buffer near its limit             *)
(***************************************************************************)
MinBufferLen == 995   \* shortest buffer the runs start from

\* the i-th event of a long-monitored wallet's buffer
BufferedEvent(i) == [hash |-> i, blockNumber |-> i]

\* the events handed to bufferEvent
BufferInputs == {WalletEvent(h) : h \in TxHashes}

\* the server with MonitoredWallet monitored and n events in its buffer
InitBuffer ==
    /\ InitHub
    /\ blacklist = {}
    /\ scoringCall = NoCall
    /\ rescoreCall = IdleRescore
    /\ rescoreResults = <<>>
    /\ alertCall = NoAlert
    /\ hashCaches = NoHashes
    /\ transactionHistory = [w \in Keys |-> <<>>]
    /\ monitoredWallets = set(EmptyMap, MonitoredWallet,
           [eventCount |-> 0, isActive |-> TRUE,
            lastScore |-> calculateWalletScore(MonitoredWallet, <<>>, <<>>)])
    /\ \E n \in MinBufferLen..1000 :
           eventBuffer = set(EmptyMap, MonitoredWallet,
                             [i \in 1..n |-> BufferedEvent(i)])
    /\ startCalls = [c \in 1..MaxStartCalls |-> IdleStart]
    /\ walletEventCalls = [c \in 1..MaxEventCalls |-> IdleEvent]
    /\ batchTicks = [b \in 1..MaxBatchTicks |-> IdleBatch]
    /\ apiResult = StartResult(MonitoredWallet, TRUE, "started",
                               monitoredWallets[MonitoredWallet].lastScore)
    /\ somniaSubscribedWallets = {MonitoredWallet}
    /\ activeSubscriptions = set(EmptyMap, MonitoredWallet, 1)
    /\ tasks = [t \in 1..MaxTasks |->
                   IF t = 1 THEN [wallet |-> MonitoredWallet, kind |-> "poll",
                                  alive |-> TRUE, processedTxCache |-> {}]
                   ELSE NoTask]
    /\ pollTicks = [i \in 1..MaxPollTicks |-> IdleTick]
    /\ delivered = [w \in Keys |-> <<>>]
    /\ latestBlock = MaxBlock
    /\ flaggedWallets = {}
    /\ registry = NewRegistry
    /\ flagCalls = <<>>

\* one call of bufferEvent; the runs end with the truncation
BufferEvent(walletAddress, event) ==
    /\ Len(bufferedEvents(walletAddress)) >= MinBufferLen
    /\ eventBuffer' = bufferEvent(walletAddress, event)
    /\ batchTicks' = pushed(batchTicks, walletAddress, event)
    /\ wsOut' = <<>>
    /\ UNCHANGED <<hubTables, chainVars, somniaVars, monitoredWallets, startCalls,
                   walletEventCalls, apiResult, transactionHistory, scoringVars>>

NextBuffer == \E event \in BufferInputs : BufferEvent(MonitoredWallet, event)

SpecBuffer == InitBuffer /\ [][NextBuffer]_vars

(***************************************************************************)
(* ScoringService, method by method.  A JavaScript number that can be NaN  *)
(* is a record; values are kept in thousandths, so that a score of 69.996  *)
(* points is 69996 and a probability of 0.45 is 450.                       *)
(***************************************************************************)
Number(thousandths) == [isNaN |-> FALSE, value |-> thousandths]

NaN == [isNaN |-> TRUE, value |-> 0]

\* a whole number of points, days or transactions, in thousandths
Whole(n) == n * 1000

\* a + b
plus(a, b) == IF a.isNaN \/ b.isNaN THEN NaN ELSE Number(a.value + b.value)

\* a < b, which is false when an operand is NaN
lessThan(a, b) == ~a.isNaN /\ ~b.isNaN /\ a.value < b.value

\* a >= b, which is false when an operand is NaN
atLeast(a, b) == ~a.isNaN /\ ~b.isNaN /\ a.value >= b.value

\* Math.min(a, b) and Math.max(a, b)
mathMin(a, b) == IF a.isNaN \/ b.isNaN THEN NaN ELSE Number(Min(a.value, b.value))

mathMax(a, b) == IF a.isNaN \/ b.isNaN THEN NaN ELSE Number(Max(a.value, b.value))

\* a || b: NaN and 0 are falsy
orElse(a, b) == IF a.isNaN \/ a.value = 0 THEN b ELSE a

\* parseFloat(x.toFixed(2)) of a value that is no NaN
toFixed2(thousandths) == ((thousandths + 5) \div 10) * 10

\* Math.log10 and Math.log at the arguments the inputs below lead to,
\* rounded to thousandths
log10(x) ==
    CASE x = Whole(1) -> 0
      [] x = Whole(10) -> 1000
      [] x = Whole(45) -> 1653
      [] x = Whole(61) -> 1785
      [] x = Whole(100) -> 2000

log(x) ==
    CASE x = Whole(7) -> 1946
      [] x = Whole(46) -> 3829

\* what the stored history of a wallet amounts to: the number of its
\* transactions, how many failed, the days between the first of them and
\* now (in thousandths), the number of counterparties
ActivityInputs ==
    {[transactionCount |-> 0, failedTransactions |-> 0, accountAgeDays |-> 0,
      uniqueCounterparties |-> 0],
     [transactionCount |-> 60, failedTransactions |-> 20, accountAgeDays |-> 500,
      uniqueCounterparties |-> 3],
     [transactionCount |-> 9, failedTransactions |-> 1, accountAgeDays |-> 1352,
      uniqueCounterparties |-> 2],
     [transactionCount |-> 9, failedTransactions |-> 6, accountAgeDays |-> 1352,
      uniqueCounterparties |-> 2],
     [transactionCount |-> 99, failedTransactions |-> 0, accountAgeDays |-> Whole(45),
      uniqueCounterparties |-> 6]}

\* transactionCount / accountAgeDays, before the cap
transactionsPerDay(activity) ==
    IF activity.accountAgeDays > 0
    THEN (activity.transactionCount * 1000000) \div activity.accountAgeDays
    ELSE 0

\* the FeatureVector extractFeaturesFromEvent builds from such a history;
\* the transactions move small values and call no contract
featureVector(activity) ==
    [transactionCount |-> activity.transactionCount,
     transactionsPerDay |-> Min(transactionsPerDay(activity), Whole(100)),
     avgTransactionValue |-> 0,
     accountAgeDays |-> Min(activity.accountAgeDays, Whole(365 * 5)),
     uniqueCounterparties |-> activity.uniqueCounterparties,
     contractInteractions |-> 0,
     failedTransactions |-> activity.failedTransactions]

\* the events argument of a scoring call: status and value of each event
EventInputs ==
    {<<>>,
     <<[status |-> "success", value |-> 0]>>,
     <<[status |-> "failed", value |-> Whole(2000)]>>}

\* a penalty that looks the address up as it was spelled by the caller
penaltyForExactAddress(walletAddress) ==
    IF walletAddress \in blacklist THEN Whole(BLACKLIST_PENALTY) ELSE 0

\* this.blacklist.has(walletAddress.toLowerCase()) ? BLACKLIST_PENALTY : 0
blacklistPenalty(walletAddress) ==
    IF toLowerCase(walletAddress) \in blacklist THEN Whole(BLACKLIST_PENALTY) ELSE 0

\* determineRiskLevel of a number
determineRiskLevelOf(score) ==
    IF atLeast(score, Number(Whole(70))) THEN "low"
    ELSE IF atLeast(score, Number(Whole(50))) THEN "medium"
    ELSE IF atLeast(score, Number(Whole(30))) THEN "high"
    ELSE "critical"

\* generateFlags without the test of the blacklist
flagsWithoutBlacklisted(walletAddress, features, score) ==
    (IF features.failedTransactions > 10 THEN {"high_failure_rate"} ELSE {})
    \cup (IF features.transactionsPerDay > Whole(50) THEN {"high_frequency"} ELSE {})
    \cup (IF features.uniqueCounterparties > 500 THEN {"many_counterparties"} ELSE {})
    \cup (IF features.accountAgeDays < Whole(7) THEN {"new_account"} ELSE {})
    \cup (IF features.contractInteractions > 200 THEN {"high_contract_activity"} ELSE {})
    \cup (IF lessThan(score, Number(Whole(30))) THEN {"critical_risk"}
          ELSE IF lessThan(score, Number(Whole(50))) THEN {"high_risk"} ELSE {})

\* generateFlags
generateFlags(walletAddress, features, score) ==
    (IF toLowerCase(walletAddress) \in blacklist THEN {"blacklisted"} ELSE {})
    \cup flagsWithoutBlacklisted(walletAddress, features, score)

\* calculateFallbackScore: patternRisk and patternBonus of the events array
eventPatternRisk(events, features) ==
    LET recentTransactions == SliceLast(events, 20)
        highValue == SelectSeq(recentTransactions, LAMBDA e : e.value > Whole(1000))
        failed == SelectSeq(recentTransactions, LAMBDA e : e.status = "failed")
    IN IF Len(events) > 0
       THEN Whole(5) * Len(highValue) + Whole(8) * Len(failed)
            + Whole(5) * features.failedTransactions
       ELSE 0

eventPatternBonus(events, features) ==
    IF Len(events) > 0
    THEN (IF features.uniqueCounterparties > 5
          THEN Min(Whole(15), log(Whole(features.uniqueCounterparties + 1)) * 3)
          ELSE 0)
         + (IF features.accountAgeDays > Whole(7)
            THEN Min(Whole(10), log(features.accountAgeDays + Whole(1)) * 2)
            ELSE 0)
    ELSE 0

\* calculateFallbackScore: the score before the blacklist penalty
ruleBasedScore(events, features) ==
    LET activityBonus ==
            IF features.transactionCount > 0
            THEN Min(Whole(8), log10(Whole(features.transactionCount + 1)) * 2)
            ELSE 0
        baseScore == Whole(70) + activityBonus
        frequencyRisk ==
            IF features.transactionsPerDay > Whole(50)
            THEN Min(Whole(25), ((features.transactionsPerDay - Whole(50)) * 3) \div 10)
            ELSE 0
        frequencyBonus ==
            IF features.transactionsPerDay > Whole(50) THEN 0
            ELSE IF /\ features.transactionsPerDay > 0
                    /\ features.transactionsPerDay <= Whole(10)
            THEN Min(Whole(5), (features.transactionsPerDay * 3) \div 10)
            ELSE 0
        valueRisk ==
            IF features.avgTransactionValue > Whole(100)
            THEN Min(Whole(15), log10(features.avgTransactionValue) * 2)
            ELSE 0
        patternRisk == eventPatternRisk(events, features) + frequencyRisk + valueRisk
                       + Whole(4) * features.failedTransactions
        patternBonus == eventPatternBonus(events, features) + frequencyBonus
        ageAdjustment ==
            IF features.accountAgeDays > Whole(30)
            THEN Min(Whole(15), log10(features.accountAgeDays) * 3)
            ELSE IF features.accountAgeDays < Whole(1) THEN 0 - Whole(20)
            ELSE 0
    IN baseScore - patternRisk + patternBonus + ageAdjustment

\* calculateFallbackScore(walletAddress, events), features being what
\* extractFeaturesFromEvent returned
calculateFallbackScore(walletAddress, events, features) ==
    LET score == Max(0, Min(Whole(100),
                     ruleBasedScore(events, features) + blacklistPenalty(walletAddress)))
        confidence == Min(800, Max(300, Len(events) * 50))
    IN [reputationScore |-> Number(toFixed2(score)),
        riskLevel |-> determineRiskLevelOf(Number(score)),
        confidence |-> Number(toFixed2(confidence)),
        features |-> features,
        transactionCount |-> Len(events),
        flags |-> generateFlags(walletAddress, features, Number(score))]

\* the address getMLPrediction hands to calculateFallbackScore
ZeroAddress == <<"zero", "lower">>

\* calculateFallbackScore('0x000...0', []): the zero address has no history
fallbackOfZeroAddress ==
    calculateFallbackScore(ZeroAddress, <<>>,
        featureVector([transactionCount |-> 0, failedTransactions |-> 0,
                       accountAgeDays |-> 0, uniqueCounterparties |-> 0]))

\* the prediction getMLPrediction builds from the fallback result
fallbackPrediction ==
    LET fallbackResult == fallbackOfZeroAddress
        share == Number(fallbackResult.reputationScore.value \div 100)
    IN [score |-> fallbackResult.reputationScore,
        probabilities |-> <<Number(Whole(1) - share.value), share>>]

\* this.model and what model.run does with a feature tensor: no model was
\* loaded; run throws (a tensor of the wrong shape); run returns the two
\* class probabilities, or two NaN
ModelInputs ==
    {[loaded |-> FALSE, throws |-> FALSE, outputData |-> <<>>],
     [loaded |-> TRUE, throws |-> TRUE, outputData |-> <<>>],
     [loaded |-> TRUE, throws |-> FALSE, outputData |-> <<NaN, NaN>>]}
    \cup {[loaded |-> TRUE, throws |-> FALSE,
           outputData |-> <<Number(Whole(1) - p), Number(p)>>] :
             p \in {0, 200, 450, 1000}}

\* getMLPrediction(features) with a model whose output has two elements
getMLPrediction(features, model) ==
    IF ~model.loaded THEN fallbackPrediction
    ELSE IF model.throws THEN fallbackPrediction
    ELSE LET probabilities == model.outputData
             score == IF probabilities[2].isNaN THEN NaN
                      ELSE Number(probabilities[2].value * 100)
         IN [score |-> mathMax(Number(0), mathMin(Number(Whole(100)), score)),
             probabilities |-> probabilities]

\* baseScore + blacklistPenalty
unclampedScore(walletAddress, mlPrediction) ==
    plus(mlPrediction.score, Number(blacklistPenalty(walletAddress)))

\* calculateWalletScore from the prediction on: the try block did not throw
calculateWalletScoreWith(walletAddress, events, features, mlPrediction) ==
    LET finalScore == mathMax(Number(0), mathMin(Number(Whole(100)),
                          unclampedScore(walletAddress, mlPrediction)))
    IN [reputationScore |-> finalScore,
        riskLevel |-> determineRiskLevelOf(finalScore),
        confidence |-> orElse(mlPrediction.probabilities[2], Number(500)),
        features |-> features,
        transactionCount |-> Len(events),
        flags |-> generateFlags(walletAddress, features, finalScore)]

\* the wallets that are scored: one whose address has letters, one without
ScoredWallets == {<<"w1", "checksum">>, <<"w2", "lower">>}

\* calculateWalletScore(walletAddress, events) for a wallet with the given
\* stored history and the given model
CalculateWalletScore(walletAddress, activity, events, model) ==
    LET features == featureVector(activity)
        mlPrediction == getMLPrediction(features, model)
    IN /\ scoringCall' =
              [method |-> "calculateWalletScore", walletAddress |-> walletAddress,
               activity |-> activity, events |-> events, model |-> model,
               baseScore |-> mlPrediction.score,
               unclamped |-> unclampedScore(walletAddress, mlPrediction),
               result |-> calculateWalletScoreWith(walletAddress, events, features,
                                                   mlPrediction)]
       /\ wsOut' = <<>>
       /\ UNCHANGED <<hubTables, chainVars, somniaVars, monitoredWallets, eventBuffer,
                      startCalls, walletEventCalls, batchTicks, apiResult,
                      transactionHistory, blacklist, rescoreCall, rescoreResults,
                      alertCall, hashCaches>>

\* calculateFallbackScore(walletAddress, events) for a wallet with the given
\* stored history
CalculateFallbackScore(walletAddress, activity, events) ==
    LET features == featureVector(activity)
    IN /\ scoringCall' =
              [method |-> "calculateFallbackScore", walletAddress |-> walletAddress,
               activity |-> activity, events |-> events,
               model |-> [loaded |-> FALSE, throws |-> FALSE, outputData |-> <<>>],
               baseScore |-> Number(ruleBasedScore(events, features)),
               unclamped |-> Number(ruleBasedScore(events, features)
                                    + blacklistPenalty(walletAddress)),
               result |-> calculateFallbackScore(walletAddress, events, features)]
       /\ wsOut' = <<>>
       /\ UNCHANGED <<hubTables, chainVars, somniaVars, monitoredWallets, eventBuffer,
                      startCalls, walletEventCalls, batchTicks, apiResult,
                      transactionHistory, blacklist, rescoreCall, rescoreResults,
                      alertCall, hashCaches>>

\* the services after start-up, the blacklist file naming a wallet or none
InitScoring == \E data \in SUBSET {<<"w1", "checksum">>} : InitHub /\ InitServices(data)

\* the scoring methods applied to wallets, histories, events and models
NextScoring ==
    \/ \E walletAddress \in ScoredWallets, activity \in ActivityInputs,
          events \in EventInputs, model \in ModelInputs :
           CalculateWalletScore(walletAddress, activity, events, model)
    \/ \E walletAddress \in ScoredWallets, activity \in ActivityInputs,
          events \in EventInputs :
           CalculateFallbackScore(walletAddress, activity, events)

SpecScoring == InitScoring /\ [][NextScoring]_vars

NextHub ==
    \/ \E c \in ConnIds : HandleConnection(c)
    \/ \E c \in ConnIds, data \in InputStrings : HandleSubscribe(c, data)
    \/ \E c \in ConnIds, data \in InputStrings : HandleUnsubscribe(c, data)
    \/ \E c \in ConnIds : HandleDisconnect(c)
    \/ \E c \in ConnIds : HandleError(c)
    \/ \E t \in MsgTypes, w \in Keys : BroadcastMessage(t, w)

SpecHub == Init /\ [][NextHub]_vars

(***************************************************************************)
(* The Hub near its limits: one connection that has sent almost            *)
(* maxMessages subscribe messages in the running window and holds almost   *)
(* maxSubscriptions subscriptions                                          *)
(***************************************************************************)
\* further wallets the connection subscribed to earlier
FillerIds ==
    <<
      "f01", "f02", "f03", "f04", "f05", "f06", "f07", "f08", "f09",
      "f10", "f11", "f12", "f13", "f14", "f15", "f16", "f17", "f18",
      "f19", "f20", "f21", "f22", "f23", "f24", "f25", "f26", "f27",
      "f28", "f29", "f30", "f31", "f32", "f33", "f34", "f35", "f36",
      "f37", "f38", "f39", "f40", "f41", "f42", "f43", "f44", "f45",
      "f46", "f47", "f48", "f49", "f50"
    >>

\* the stored (checksum) form of the first k of them
fillerSubscriptions(k) == {<<FillerIds[i], "checksum">> : i \in 1..k}

LimitConn == "c1"

\* the connection sent its first message at time 0 (the window runs until
\* windowMs) and the others just now, one tick later
InitLimits ==
    \E n \in MinInboundNearLimit..maxMessages,
       k \in MinSubscriptionsNearLimit..maxSubscriptions,
       own \in SUBSET {<<"w1", "checksum">>} :
        /\ k + Cardinality(own) <= maxSubscriptions
        /\ connections = {LimitConn}
        /\ socketConnected = [c \in ConnIds |-> c = LimitConn]
        /\ subscribedWallets =
              [c \in ConnIds |->
                  IF c = LimitConn THEN fillerSubscriptions(k) \cup own ELSE {}]
        /\ lastActivity = [c \in ConnIds |-> IF c = LimitConn THEN TickMs ELSE 0]
        /\ messageCounts =
              [c \in ConnIds |->
                  IF c = LimitConn THEN [count |-> n, resetTime |-> windowMs]
                  ELSE NoRate]
        /\ now = TickMs
        /\ lastReply = <<LimitConn, "subscribed">>
        /\ lastCleanup = 0
        /\ inboundLog =
              [c \in ConnIds |->
                  IF c = LimitConn
                  THEN [i \in 1..n |-> [time |-> IF i = 1 THEN 0 ELSE TickMs,
                                        type |-> "subscribe", limited |-> FALSE]]
                  ELSE <<>>]
        /\ wsOut = <<>>
        /\ InitServices({})

NextLimits ==
    \/ \E data \in InputStrings : HandleSubscribe(LimitConn, data)
    \/ \E data \in InputStrings : HandleUnsubscribe(LimitConn, data)
    \/ HandlePing(LimitConn)
    \/ TimePasses(MaxNow)
    \/ CleanupStaleConnections

SpecLimits == InitLimits /\ [][NextLimits]_vars

(***************************************************************************)
(* The Hub with connections that fall idle: clients connect, subscribe     *)
(* and then stay silent while the clock and the cleanup interval run; no   *)
(* client disconnects by itself                                            *)
(***************************************************************************)
IdleInputs == {<<"w2", "lower">>}

NextIdle ==
    \/ \E c \in ConnIds : HandleConnection(c)
    \/ \E c \in ConnIds, data \in IdleInputs : HandleSubscribe(c, data)
    \/ \E w \in IdleInputs : BroadcastMessage("score_update", w)
    \/ TimePasses(MaxIdleNow)
    \/ CleanupStaleConnections

\* setInterval fires the cleanup whenever it is due, and time passes
SpecIdle ==
    /\ Init
    /\ [][NextIdle]_vars
    /\ WF_vars(CleanupStaleConnections)
    /\ WF_vars(TimePasses(MaxIdleNow))

\* events of the SDK subscription, each broadcast as a transaction alert
NextAlert ==
    \/ \E w \in Keys, hash \in 1..MaxAlertHashes, data \in SdkTimestamps,
          dateNow \in ClockInputs : EventCreated(w, hash, data, dateNow)
    \/ \E dateNow \in ClockInputs : BroadcastTransactionAlert(dateNow)

SpecAlert == Init /\ [][NextAlert]_vars

\* a polling task that has delivered almost 1000 transactions, in a service
\* that has processed almost 10000 (the task's and those of the tasks of
\* other wallets): nothing was removed from a cache yet
InitCaches ==
    \E n \in MinCachedNearLimit..maxRecentTxHashes,
       g \in MinGlobalNearLimit..maxProcessedTransactions :
        /\ InitHub
        /\ InitOtherServices({})
        /\ hashCaches =
              [pc |-> "idle",
               processedTxCache |-> [i \in 1..n |-> i],
               recentTxHashSet |-> [i \in 1..n |-> i],
               processedTransactions |->
                   [i \in 1..g |-> IF i <= g - n THEN otherHashes + i
                                   ELSE i - (g - n)],
               delivered |-> 0]

NextCaches ==
    \/ HashDelivered
    \/ PollTickEnds

SpecCaches == InitCaches /\ [][NextCaches]_vars

\* the contract under calls of the backend and of an account without a role
NextRegistry ==
    \/ \E sender \in Callers, wallet \in WalletIds, score \in RegistryScores :
           FlagWallet(sender, wallet, score)
    \/ \E sender \in Callers, wallet \in WalletIds : UnflagWallet(sender, wallet)
    \/ CleanupExpiredFlags
    \/ DaysPass

SpecRegistry == Init /\ [][NextRegistry]_vars

(***************************************************************************)
(* Claims about the Broadcast Hub                                          *)
(***************************************************************************)
\* C3: every connected connection that holds an acknowledged subscription
\* for the wallet of a broadcast receives that broadcast.
C3_SubscribersReceive ==
    \A i \in 1..Len(wsOut) : \A c \in connections :
        (/\ socketConnected[c]
         /\ \E s \in subscribedWallets[c] : SameWallet(s, wsOut[i].wallet))
        => c \in wsOut[i].to

\* C4: a broadcast for wallet W reaches only connections whose subscription
\* set contains the lowercase form of W; a connection without a
\* subscription for W is never among the receivers.
C4_OnlySubscribersReceive ==
    \A i \in 1..Len(wsOut) : \A c \in wsOut[i].to :
        /\ c \in connections
        /\ toLowerCase(wsOut[i].wallet) \in subscribedWallets[c]
        /\ \E s \in subscribedWallets[c] : SameWallet(s, wsOut[i].wallet)

\* a broadcast was delivered to one connection while another connected
\* connection, subscribed to a different wallet, was left out
C4_Witness ==
    \E i \in 1..Len(wsOut) :
        /\ wsOut[i].to # {}
        /\ \E c \in connections \ wsOut[i].to :
              /\ socketConnected[c]
              /\ subscribedWallets[c] # {}
              /\ \A s \in subscribedWallets[c] : ~SameWallet(s, wsOut[i].wallet)

(***************************************************************************)
(* Claims about the Monitor Coordinator                                    *)
(***************************************************************************)
\* the polling timers and SDK subscriptions that run for a wallet
ingestionTasks(walletAddress) ==
    {t \in DOMAIN tasks : tasks[t].alive /\ tasks[t].wallet = walletAddress}

\* C1: every active monitor has exactly one ingestion task (a push
\* subscription or a polling timer) for its wallet, never none and never two.
C1_ExactlyOneTask ==
    \A w \in DOMAIN monitoredWallets :
        monitoredWallets[w].isActive => Cardinality(ingestionTasks(w)) = 1

\* the flag transactions of a wallet that await their confirmation
flagsInFlight(walletAddress) ==
    {b \in DOMAIN batchTicks :
        batchTicks[b].pc = "flagging" /\ batchTicks[b].wallet = walletAddress}

C5_StoppedStaysStopped ==
    (apiResult.op = "stop" /\ apiResult.success) =>
        /\ ~has(monitoredWallets, apiResult.wallet)
        /\ ~has(eventBuffer, apiResult.wallet)

\* what C7 compares: the monitor, the buffer, the ingestion tasks, the score
observableState(w) ==
    [monitored |-> has(monitoredWallets, w),
     buffered |-> has(eventBuffer, w),
     tasks |-> {tasks[t].kind : t \in ingestionTasks(w)},
     score |-> IF has(monitoredWallets, w) THEN monitoredWallets[w].lastScore
               ELSE NoScore]

\* the state a single start leaves, from the server's initial state, when the
\* subscription settles with the given outcome and the chain reads return
\* the given events
afterSingleStart(w, outcome, initialEvents) ==
    [monitored |-> TRUE,
     buffered |-> FALSE,
     tasks |-> IF outcome = "fail" THEN {} ELSE {outcome},
     score |-> calculateWalletScore(w, initialEvents, <<>>)]

\* C7: a start that follows earlier starts and stops of the wallet (calls
\* made one after the other) leaves the state a single start leaves.
C7_RestartSameAsStart ==
    [][\A c \in 1..MaxStartCalls : \A w \in Keys :
          (startCalls[c].wallet = w /\ StartPublished(c)) =>
              observableState(w)' =
                  afterSingleStart(w, startCalls[c].outcome,
                                   startCalls[c].initialEvents)]_vars

\* C8: startMonitoringWallet on a wallet that has a monitor returns success
\* with the monitor's score and changes neither the monitors nor the
\* ingestion tasks, leaves no call in progress and broadcasts nothing.
C8_StartIsIdempotent ==
    [][\A s \in ApiInputs :
          LET validation == isValidEthereumAddress(s)
              w == validation.normalized
          IN (validation.isValid /\ has(monitoredWallets, w)
              /\ StartMonitoringWallet(s)) =>
                 /\ apiResult' = StartResult(w, TRUE, "already monitored",
                                             monitoredWallets[w].lastScore)
                 /\ monitoredWallets' = monitoredWallets
                 /\ tasks' = tasks
                 /\ activeSubscriptions' = activeSubscriptions
                 /\ startCalls' = startCalls
                 /\ wsOut' = <<>>]_vars

\* a start was answered for a wallet whose monitor has a score
C8_Witness ==
    /\ apiResult.op = "start"
    /\ apiResult.message = "already monitored"
    /\ has(monitoredWallets, apiResult.wallet)
    /\ apiResult.existingScore # NoScore
    /\ apiResult.existingScore = monitoredWallets[apiResult.wallet].lastScore

(***************************************************************************)
(* Claims about the Event Ingester                                         *)
(***************************************************************************)
\* C6: once the unsubscribe of wallet W has completed (W is no longer among
\* the subscribed wallets), no ingestion task for W remains and no further
\* event for W is handed to the callback.
C6_UnsubscribedIsSilent ==
    [][\A w \in Keys :
          w \notin somniaSubscribedWallets =>
              /\ ingestionTasks(w) = {}
              /\ delivered'[w] = delivered[w]]_vars

\* C9: no transaction hash is handed to a monitored wallet's callback twice.
C9_DeliveredOnce ==
    \A w \in DOMAIN monitoredWallets : \A i, j \in 1..Len(delivered[w]) :
        i < j => delivered[w][i].hash # delivered[w][j].hash

\* C10: the block numbers of the events handed to a wallet's callback never
\* decrease.
C10_BlocksNonDecreasing ==
    \A w \in Keys : \A i, j \in 1..Len(delivered[w]) :
        i < j => delivered[w][i].blockNumber <= delivered[w][j].blockNumber

(***************************************************************************)
(* Claims about the event buffer                                           *)
(***************************************************************************)
\* C11: when a wallet's buffer holds exactly 1000 events, bufferEvent of one
\* more event leaves the buffer without its oldest event and with the new
\* event at the end: the newest 1000 events.
C11_EvictsSingleOldest ==
    [][\A event \in BufferInputs :
          (/\ Len(bufferedEvents(MonitoredWallet)) = 1000
           /\ BufferEvent(MonitoredWallet, event)) =>
              eventBuffer'[MonitoredWallet] =
                  Tail(eventBuffer[MonitoredWallet]) \o <<event>>]_vars

(***************************************************************************)
(* Claims about flagging                                                   *)
(***************************************************************************)
\* C12: a batch run calls contractService.flagWallet for a wallet only when
\* its score is below 40 with risk level critical and isWalletFlagged has
\* just answered that the wallet is not flagged; when the answer is
\* "flagged", the run makes no call and the flag registry is unchanged.
C12_FlagOnlyCriticalUnflagged ==
    [][\A b \in 1..MaxBatchTicks :
          /\ (batchTicks[b].pc # "flagging" /\ batchTicks'[b].pc = "flagging") =>
                 /\ batchTicks[b].newScore.reputationScore < 40
                 /\ batchTicks[b].newScore.riskLevel = "critical"
                 /\ batchTicks[b].pc = "checking"
                 /\ batchTicks[b].wallet \notin flaggedWallets
          /\ (/\ batchTicks[b].pc = "checking"
              /\ batchTicks[b].wallet \in flaggedWallets
              /\ FlagChecked(b)) =>
                 /\ batchTicks'[b].pc = "idle"
                 /\ flaggedWallets' = flaggedWallets]_vars

\* a run has called flagWallet for an unflagged wallet with a critical score
C12_Witness ==
    \E b \in 1..MaxBatchTicks :
        /\ batchTicks[b].pc = "flagging"
        /\ shouldFlag(batchTicks[b].newScore)
        /\ batchTicks[b].wallet \notin flaggedWallets

\* C13: contractService.flagWallet is called at most once for a wallet on the
\* same buffered data: a later run of the batch timer that finds the data
\* unchanged makes no second call.
C13_FlaggedOncePerData ==
    \A i, j \in 1..Len(flagCalls) :
        i < j => ~(/\ flagCalls[i].wallet = flagCalls[j].wallet
                   /\ flagCalls[i].events = flagCalls[j].events)

(***************************************************************************)
(* Claims about the Flag Registry Client                                   *)
(***************************************************************************)
\* C14: when the flag write of a run is rejected because the wallet is
\* already flagged, contractService.flagWallet reports success to its caller
\* (the run goes on as after a confirmed flag: the flag registry still holds
\* the wallet and the result counts as success).
C14_AlreadyFlaggedIsSuccess ==
    [][\A b \in 1..MaxBatchTicks :
          (/\ batchTicks[b].pc = "flagging"
           /\ batchTicks[b].wallet \in flaggedWallets) =>
              (\A success \in BOOLEAN : FlagSettled(b, success) => success)]_vars

\* C15: every call of contract.flagWallet passes the argument list that
\* WalletFlagger.sol declares for flagWallet, (address, uint256, string), and
\* the ABI of the client's contract object declares the same list.
C15_ArgumentsAsDeclared ==
    \A i \in 1..Len(flagCalls) :
        /\ fitsParameters(flagCalls[i].arguments, WalletFlagger_flagWallet)
        /\ contractABI_flagWallet = WalletFlagger_flagWallet


(***************************************************************************)
(* Claims about the Scorer                                                 *)
(***************************************************************************)
\* the wallet of the claim: 20 failed transactions, 120 transactions a day,
\* first seen half a day ago
isBotLikeNewWallet(activity) ==
    /\ activity.failedTransactions = 20
    /\ transactionsPerDay(activity) = Whole(120)
    /\ activity.accountAgeDays = 500

\* C16: with no model loaded, calculateWalletScore gives the score that the
\* rule-based fallback computes from the scored wallet's own features; for a
\* wallet with 20 failed transactions, 120 transactions a day and an age of
\* half a day the score is below 30 and the risk level is critical.
C16_FallbackScoresOwnFeatures ==
    (scoringCall.method = "calculateWalletScore" /\ ~scoringCall.model.loaded) =>
        LET own == calculateFallbackScore(scoringCall.walletAddress, scoringCall.events,
                                          featureVector(scoringCall.activity))
        IN /\ scoringCall.result.reputationScore = own.reputationScore
           /\ scoringCall.result.riskLevel = own.riskLevel
           /\ isBotLikeNewWallet(scoringCall.activity) =>
                  /\ lessThan(scoringCall.result.reputationScore, Number(Whole(30)))
                  /\ scoringCall.result.riskLevel = "critical"

\* C17: two recalculateScore calls for the same wallet over the same buffered
\* events, the wallet having received no event in between, return the same
\* score, risk level, transaction count and feature values.
C17_RescoreIsStable ==
    \A i, j \in 1..Len(rescoreResults) :
        (/\ rescoreResults[i].wallet = rescoreResults[j].wallet
         /\ rescoreResults[i].events = rescoreResults[j].events
         /\ rescoreResults[i].eventCount = rescoreResults[j].eventCount) =>
            rescoreResults[i].score = rescoreResults[j].score

\* C18: in every result of a scoring method that reports a number s as the
\* reputation score, the risk level is the one s maps to: low iff s >= 70,
\* medium iff 50 <= s < 70, high iff 30 <= s < 50, critical iff s < 30.
C18_RiskLevelFromReportedScore ==
    (scoringCall.method # "none" /\ ~scoringCall.result.reputationScore.isNaN) =>
        LET s == scoringCall.result.reputationScore
            riskLevel == scoringCall.result.riskLevel
        IN /\ riskLevel = "low" <=> atLeast(s, Number(Whole(70)))
           /\ riskLevel = "medium" <=>
                  (atLeast(s, Number(Whole(50))) /\ lessThan(s, Number(Whole(70))))
           /\ riskLevel = "high" <=>
                  (atLeast(s, Number(Whole(30))) /\ lessThan(s, Number(Whole(50))))
           /\ riskLevel = "critical" <=> lessThan(s, Number(Whole(30)))

\* C19: for a wallet on the blacklist, in whatever case its address is
\* written, the result's flags contain "blacklisted" and the score before
\* the clamp to [0, 100] is at most the raw score (the model's, or the
\* rule-based one) minus 30.
C19_BlacklistPenaltyApplied ==
    (/\ scoringCall.method # "none"
     /\ toLowerCase(scoringCall.walletAddress) \in blacklist) =>
        /\ "blacklisted" \in scoringCall.result.flags
        /\ ~scoringCall.baseScore.isNaN =>
               /\ ~scoringCall.unclamped.isNaN
               /\ scoringCall.unclamped.value <= scoringCall.baseScore.value - Whole(30)

\* a blacklisted wallet, its address given in checksum case, was scored by a
\* loaded model and got the flag and the penalty
C19_Witness ==
    /\ scoringCall.method = "calculateWalletScore"
    /\ scoringCall.model.loaded
    /\ ~scoringCall.model.throws
    /\ scoringCall.walletAddress = <<"w1", "checksum">>
    /\ toLowerCase(scoringCall.walletAddress) \in blacklist
    /\ ~scoringCall.baseScore.isNaN
    /\ scoringCall.unclamped.value = scoringCall.baseScore.value - Whole(30)
    /\ "blacklisted" \in scoringCall.result.flags

\* the model could not be loaded, or run threw, or run returned NaN
scoringFailed(model) ==
    \/ ~model.loaded
    \/ model.throws
    \/ \E k \in 1..Len(model.outputData) : model.outputData[k].isNaN

\* C20: when the model could not be loaded, or its run throws, or its output
\* is NaN, calculateWalletScore still returns a reputation score that is a
\* number in [0, 100], the risk level that score maps to, and a confidence
\* in [0, 1].
C20_FailureYieldsValidResult ==
    (scoringCall.method = "calculateWalletScore" /\ scoringFailed(scoringCall.model)) =>
        LET result == scoringCall.result
        IN /\ ~result.reputationScore.isNaN
           /\ result.reputationScore.value >= 0
           /\ result.reputationScore.value <= Whole(100)
           /\ result.riskLevel = determineRiskLevelOf(result.reputationScore)
           /\ ~result.confidence.isNaN
           /\ result.confidence.value >= 0
           /\ result.confidence.value <= Whole(1)
(***************************************************************************)
(* Claims about the Hub's limits and its connection table                  *)
(***************************************************************************)
\* C25: every address stored in a connection's subscription set is in
\* lowercase form, the form the broadcasts use as their lookup key.
C25_StoredInLookupForm ==
    \A c \in ConnIds : \A w \in subscribedWallets[c] : w = toLowerCase(w)

\* C26: when a client disconnects and when its transport reports an error,
\* the Hub removes the connection from its table together with its
\* subscriptions, so that no later broadcast is attempted on it.
C26_DisconnectAndErrorRemove ==
    [][\A c \in ConnIds :
          (HandleDisconnect(c) \/ HandleError(c)) => c \notin connections']_vars

\* C21: within one 60 s window of a connection (here: the 60 s after its
\* first message), the 100th inbound message passes the rate limit, and the
\* 101st is rejected with RATE_LIMIT_EXCEEDED and leaves the connection's
\* subscriptions as they were.
C21_HundredthPassesNextRejected ==
    [][\A c \in ConnIds :
          (/\ Len(inboundLog'[c]) = Len(inboundLog[c]) + 1
           /\ now' < inboundLog'[c][1].time + windowMs)
          => /\ Len(inboundLog'[c]) <= maxMessages
                   => ~inboundLog'[c][Len(inboundLog'[c])].limited
             /\ Len(inboundLog'[c]) > maxMessages
                   => /\ lastReply' = <<c, "RATE_LIMIT_EXCEEDED">>
                      /\ subscribedWallets'[c] = subscribedWallets[c]]_vars

\* C22: the limit is a sliding window: of the subscribe messages of one
\* connection, at most 100 that lie within any 60 s pass the rate limit
\* (stated for the 60 s that end with the connection's latest message).
C22_SlidingWindow ==
    \A c \in ConnIds :
        Cardinality({i \in 1..Len(inboundLog[c]) :
                        /\ inboundLog[c][i].type = "subscribe"
                        /\ ~inboundLog[c][i].limited
                        /\ inboundLog[c][i].time > now - windowMs}) <= maxMessages

\* C23: a connection's subscription set never holds more than 50 wallets.
C23_AtMostFiftySubscriptions ==
    \A c \in ConnIds : Cardinality(subscribedWallets[c]) <= maxSubscriptions

\* a subscribe for a further wallet was refused at 50 subscriptions
C23_Witness ==
    \E c \in connections :
        /\ lastReply = <<c, "SUBSCRIPTION_LIMIT_EXCEEDED">>
        /\ Cardinality(subscribedWallets[c]) = maxSubscriptions

\* C24: a subscribe for a wallet that is already in the connection's set
\* (sent as a valid address, in any letter case) that passes the rate limit
\* leaves the set unchanged and is acknowledged as subscribed, whatever the
\* size of the set.
C24_DuplicateSubscribeIdempotent ==
    [][\A c \in ConnIds : \A data \in InputStrings :
          (/\ HandleSubscribe(c, data)
           /\ validateSubscribeData(data).isValid
           /\ validateSubscribeData(data).wallet \in subscribedWallets[c]
           /\ ~inboundLog'[c][Len(inboundLog'[c])].limited)
          => /\ subscribedWallets'[c] = subscribedWallets[c]
             /\ lastReply' = <<c, "subscribed">>]_vars

\* the connection is in the table and has been silent for more than
\* CONNECTION_TIMEOUT
idleTooLong(c) == c \in connections /\ now - lastActivity[c] > CONNECTION_TIMEOUT

\* C27: a connection with no activity for more than 300 s does not stay:
\* unless the client becomes active again first, the cleanup that runs
\* every 60 s closes it. Every cleanup takes all such connections out of the
\* table, closes their sockets and drops their subscriptions, and a
\* broadcast is delivered to connections of the table only.
C27_IdleConnectionReaped ==
    /\ \A c \in ConnIds : idleTooLong(c) ~> ~idleTooLong(c)
    /\ [][CleanupStaleConnections =>
             \A c \in ConnIds :
                 idleTooLong(c) => /\ c \notin connections'
                                   /\ ~socketConnected'[c]
                                   /\ subscribedWallets'[c] = {}]_vars
    /\ [](\A i \in 1..Len(wsOut) : wsOut[i].to \subseteq connections)

\* a connection that had subscribed was closed by the cleanup, and a later
\* broadcast for its wallet reached nobody
C27_Witness ==
    \E c \in ConnIds :
        /\ c \notin connections
        /\ Len(inboundLog[c]) > 0
        /\ now - lastActivity[c] > CONNECTION_TIMEOUT
        /\ Len(wsOut) > 0
        /\ \A i \in 1..Len(wsOut) : c \notin wsOut[i].to

\* C40: every inbound message of a connection, whatever its type (subscribe,
\* unsubscribe, ping), is counted by checkRateLimit, and is answered with
\* RATE_LIMIT_EXCEEDED once the count of the window exceeds maxMessages.
C40_EveryMessageTypeCounted ==
    [][\A c \in ConnIds :
          Len(inboundLog'[c]) = Len(inboundLog[c]) + 1
          => LET rate == checkRateLimit(messageCounts[c]) IN
             /\ messageCounts'[c] = rate.rateInfo
             /\ ~rate.ok => lastReply' = <<c, "RATE_LIMIT_EXCEEDED">>]_vars

\* C31: the transaction alert carries the event's timestamp in milliseconds:
\* a timestamp that looks like seconds is emitted multiplied by 1000 (the
\* same instant), a timestamp in milliseconds as it is.
C31_SecondsTimesThousand ==
    alertCall.pc = "sent" =>
        alertCall.emitted.timestamp =
            IF alertCall.created.timestamp < secondsBelow
            THEN alertCall.created.timestamp * 1000
            ELSE alertCall.created.timestamp

\* C32: the event the Coordinator holds is, after the broadcast of its
\* transaction alert, field by field the event the Ingester created.
C32_EventNeverMutated ==
    alertCall.pc = "sent" => alertCall.event = alertCall.created

(***************************************************************************)
(* Claims about the event buffer and the batch runs                        *)
(***************************************************************************)
\* C36: when a wallet's buffer is cleared, every event in it was among the
\* events a batch run in progress computed its score from: an event appended
\* while a run is processing the wallet is not discarded unscored.
C36_BufferedEventsScoredBeforeRemoval ==
    [][\A w \in Keys :
          (/\ has(eventBuffer, w) /\ has(eventBuffer', w)
           /\ eventBuffer'[w] = <<>>)
          => \A i \in 1..Len(eventBuffer[w]) :
                \E b \in 1..MaxBatchTicks :
                    /\ batchTicks[b].pc # "idle"
                    /\ batchTicks[b].wallet = w
                    /\ \E k \in 1..Len(batchTicks[b].scored) :
                           batchTicks[b].scored[k] = eventBuffer[w][i]]_vars

\* C37: the transactionCount feature of a wallet's score never exceeds the
\* number of distinct transaction hashes delivered for the wallet: the
\* stored history counts each delivered event at most once, however often
\* the wallet is scored.
C37_EachEventCountedOnce ==
    \A w \in Keys :
        has(monitoredWallets, w) =>
            monitoredWallets[w].lastScore.features.transactionCount
                <= Cardinality({delivered[w][i].hash : i \in 1..Len(delivered[w])})

\* C38: a subscriber of a wallet receives exactly one transaction_alert for
\* a delivered event.  Every subscriber receives each alert the Coordinator
\* broadcasts for the wallet, so the broadcasts of one pass (the handling of
\* an event, a batch run, a start) hold no two transaction_alerts for the
\* same wallet and transaction hash.
C38_OneAlertPerEvent ==
    \A i, k \in 1..Len(wsOut) :
        (/\ i < k
         /\ wsOut[i].type = "transaction_alert"
         /\ wsOut[k].type = "transaction_alert"
         /\ wsOut[i].hash = wsOut[k].hash)
        => wsOut[i].wallet # wsOut[k].wallet

(***************************************************************************)
(* Claims about the Ingester's hash caches                                 *)
(***************************************************************************)
\* C35: between the ticks of a wallet's polling task, neither of the task's
\* caches of processed transaction hashes holds more than 1000 entries,
\* however many transactions the task has delivered, and the service's set
\* of processed hashes never holds more than 10000.
C35_CachesBounded ==
    /\ hashCaches.pc = "idle" =>
           /\ Len(hashCaches.processedTxCache) <= maxRecentTxHashes
           /\ Len(hashCaches.recentTxHashSet) <= maxRecentTxHashes
    /\ Len(hashCaches.processedTransactions) <= maxProcessedTransactions

(***************************************************************************)
(* Claims about pending transactions                                       *)
(***************************************************************************)
\* C28: a transaction whose receipt is null is pending: on that tick no
\* event is delivered for it and its hash is not marked processed (so that a
\* later tick fetches it again and delivers it once the receipt exists).
C28_NullReceiptIsPending ==
    [][\A i \in 1..MaxPollTicks :
          (TransactionFetched(i, "noReceipt") \/ BlockTransactionFetched(i, "noReceipt"))
          => /\ delivered' = delivered
             /\ pollTicks[i].pending
                   \notin tasks'[pollTicks[i].task].processedTxCache]_vars

(***************************************************************************)
(* Claims about the start of monitoring                                    *)
(***************************************************************************)
\* the score_update messages among the messages of a step
scoreUpdatesIn(out) == Cardinality({i \in 1..Len(out) : out[i].type = "score_update"})

\* C30: a start of monitoring that computes the initial score broadcasts it
\* as exactly one score_update for the wallet, counted over the whole call,
\* with or without transactions found on the chain.
C30_OneScoreUpdatePerStart ==
    [][\A c \in 1..MaxStartCalls :
          StartPublished(c)
          => /\ startCalls[c].scoreUpdates + scoreUpdatesIn(wsOut') = 1
             /\ \A i \in 1..Len(wsOut') : wsOut'[i].wallet = startCalls[c].wallet]_vars

\* the score startMonitoringWallet computes for a wallet without activity:
\* calculateWalletScore(wallet, []) with no stored history, no model loaded
\* and the wallet not on the blacklist
scoredWithoutActivity ==
    /\ scoringCall.method = "calculateWalletScore"
    /\ scoringCall.activity.transactionCount = 0
    /\ scoringCall.events = <<>>
    /\ ~scoringCall.model.loaded
    /\ toLowerCase(scoringCall.walletAddress) \notin blacklist

\* C29: the score returned for a wallet with no prior activity that is not
\* blacklisted has a reputation score in [50, 90], risk level low or medium,
\* transaction count 0 and no flags.
C29_FreshWalletScore ==
    scoredWithoutActivity
    => /\ ~scoringCall.result.reputationScore.isNaN
       /\ scoringCall.result.reputationScore.value >= Whole(50)
       /\ scoringCall.result.reputationScore.value <= Whole(90)
       /\ scoringCall.result.riskLevel \in {"low", "medium"}
       /\ scoringCall.result.transactionCount = 0
       /\ scoringCall.result.flags = {}

(***************************************************************************)
(* Claims about the WalletFlagger contract                                 *)
(***************************************************************************)
\* C33: getActiveFlaggedCount() is the number of distinct wallets that are
\* flagged and not expired, after any sequence of flag, unflag, re-flag
\* and expiry.
C33_ActiveCountIsDistinctWallets ==
    getActiveFlaggedCount(registry)
        = Cardinality({w \in WalletIds : isWalletFlaggedOnChain(registry, w)})

C39_FlagAfterExpiryAccepted ==
    [][\A wallet \in WalletIds, score \in RegistryScores :
          (/\ FlagWallet("backend", wallet, score)
           /\ score <= 100
           /\ ~isWalletFlaggedOnChain(registry, wallet))
          => registry'.lastCall.ok]_vars

====
